---- MODULE Spec2Model ----
(***************************************************************************)
(* Verification model of the foresight-analyzer query pipeline.            *)
(*                                                                         *)
(*   core/api_client.py  OpenRouterClient.query_model, batch_query,        *)
(*                       _extract_probability, _post_completion            *)
(*   core/cache_manager  CacheManager.get / set (not part of the sources;  *)
(*                       modelled from the specification, section 4.1)     *)
(*                                                                         *)
(* Texts are sequences of lexical tokens (a marker, a number, a percent    *)
(* sign, a newline, ...).  Numbers are carried in units of 1/200 so that   *)
(* two-decimal literals, their midpoints and the 0..1 -> percent           *)
(* conversion stay exact integers.                                         *)
(***************************************************************************)
EXTENDS Integers, Sequences, FiniteSets, TLC

VARIABLES
    now,        \* wall clock (datetime.now()), in ticks
    use_cache,  \* OpenRouterClient.use_cache (self.cache is not None)
    cache,      \* CacheManager store: key -> entry or NoEntry
    pc,         \* per call: position of the query_model coroutine
    args,       \* per call: arguments of query_model
    tries,      \* per call: attempts made by the backoff decorator
    began,      \* per call: time of the first attempt (backoff elapsed time)
    start_time, \* per call: start_time of the current attempt
    got,        \* per call: what the backend answered (environment input)
    result,     \* per call: dictionary returned by query_model
    obs,        \* per call: side effects observed (backend calls, reads, ...)
    sem,        \* per batch_query call: value of its asyncio.Semaphore
    batchpc,    \* per batch_query call: position of the coroutine
    batchres,   \* per batch_query call: list returned by asyncio.gather
    queries,    \* number of direct query_model calls made so far
    text,       \* _extract_probability: the content it is called with
    outcome,    \* _extract_probability: what the call did, once it has ended
    job,        \* run_forecast_task: the job's row in the database
    runpc,      \* run_forecast_task: position of the background task
    forecast,   \* run_forecast_task: forecast_data, once the run returned
    saved,      \* run_forecast_task: model responses written so far
    reported,   \* run_ensemble_forecast: progress events reported so far
    statistics, \* run_forecast_task: what aggregate_results returned
    exc,        \* run_forecast_task: the exception its try block raised
    notice,     \* update_job_status: how its call in the last step ended
    model_responses, \* database: the rows of model_responses of the job
    forecast_result, \* database: the row of forecast_results of the job
    deleted,    \* delete_job has returned True for the job
    request,    \* query_model: the model id and the budget it is called with
    payload,    \* query_model: the payload built for the backend
    argv,       \* main: the command line arguments
    clipc,      \* main: position of the program
    analyzer,   \* main: the ForesightAnalyzer it has made
    api_calls,  \* main: backend calls made by the runs of the analyzer
    eta_trackers, \* api: the job ids that have an ETA tracker
    forecast_results, \* database: the rows of forecast_results of all jobs
    save_call,  \* save_result: its last call (arguments, branch taken)
    tracker,    \* eta: a ModelETATracker (its calculators)
    eta_op,     \* eta: the last call made on the tracker
    active_connections, \* api: the WebSocket registered for the job, if any
    websockets, \* api: the state of each WebSocket connection
    received    \* api: the status updates each connection has been sent

vars == <<now, use_cache, cache, pc, args, tries, began, start_time, got,
          result, obs, sem, batchpc, batchres, queries,
          text, outcome, job, runpc, forecast, saved, reported, statistics,
          exc, notice, model_responses, forecast_result, deleted,
          request, payload, argv, clipc, analyzer, api_calls,
          eta_trackers, forecast_results, save_call,
          tracker, eta_op,
          active_connections, websockets, received>>

clientvars == <<now, use_cache, cache, pc, args, tries, began, start_time,
                got, result, obs, sem, batchpc, batchres, queries>>
extractvars == <<text, outcome>>
runvars == <<job, runpc, forecast, saved, reported, statistics, exc, notice,
             model_responses, forecast_result, deleted, eta_trackers>>
payloadvars == <<request, payload>>
clivars == <<argv, clipc, analyzer, api_calls>>
savevars == <<forecast_results, save_call>>
etavars == <<tracker, eta_op>>
wsvars == <<active_connections, websockets, received>>

(* what the steps of one part of the program leave alone *)
notclient == <<extractvars, runvars, payloadvars, clivars,
    savevars, etavars, wsvars>>
notextract == <<clientvars, runvars, payloadvars, clivars,
    savevars, etavars, wsvars>>
notrun == <<clientvars, extractvars, payloadvars, clivars,
    savevars, etavars, wsvars>>
notpayload == <<clientvars, extractvars, runvars, clivars,
    savevars, etavars, wsvars>>
notcli == <<clientvars, extractvars, runvars, payloadvars,
    savevars, etavars, wsvars>>
notsave == <<clientvars, extractvars, runvars, payloadvars, clivars,
    etavars, wsvars>>
noteta == <<clientvars, extractvars, runvars, payloadvars, clivars, savevars,
    wsvars>>
notws == <<clientvars, extractvars, runvars, payloadvars, clivars, savevars, etavars>>

----------------------------------------------------------------------------
(* Bounds of the model *)

MaxClock == 2
Timeout == 1
CacheTTL == 1
Iterations == 2
ConcurrentLimit == 2
MaxQueries == 2
MaxLen == 3
MaxTail == 2
MaxBudget == 9
MaxCalls == 2
MaxSaves == 3
WindowSize == 2
MaxDelta == 1
MaxUpdates == 3
MaxConnections == 3
MaxSends == 2

(* Program constants *)

MaxTries == 3
MaxTime == 60

Unit == 2 * 100
Pct(n) == n * Unit

NoProb == 0 - 1

----------------------------------------------------------------------------
(* Texts: sequences of tokens.  A token is a number, a symbol, a newline   *)
(* or a piece of text.  Tokens of one line are separated by blanks except  *)
(* around the bold mark.                                                   *)

Num(v) == [k |-> "num", s |-> "", v |-> v]
Sym(s) == [k |-> "sym", s |-> s, v |-> 0]
Txt(s) == [k |-> "text", s |-> s, v |-> 0]
NL == [k |-> "nl", s |-> "", v |-> 0]
EndTok == [k |-> "end", s |-> "", v |-> 0]

(* str.lower() / re.IGNORECASE on the texts of the alphabet *)
UpperCased ==
    ("HAUPTPROGNOSE:" :> "hauptprognose:") @@
    ("PROGNOSE:" :> "prognose:") @@
    ("Prognose:" :> "prognose:") @@
    ("Final_Probability" :> "final_probability") @@
    ("Forecast:" :> "forecast:") @@
    ("Probability:" :> "probability:") @@
    ("I CANNOT COMPLY WITH this request" :> "i cannot comply with this request") @@
    ("I Must Decline This Request" :> "i must decline this request")

Lower(s) == IF s \in DOMAIN UpperCased THEN UpperCased[s] ELSE s

(* `pattern in text` for the texts of the alphabet: the lower-case texts   *)
(* that contain each pattern as a substring.                               *)
Containing ==
    ("cannot ignore my safety instructions" :>
        {"i cannot ignore my safety instructions"}) @@
    ("must decline this request" :> {"i must decline this request"}) @@
    ("attempt to override" :> {"this is an attempt to override my rules"}) @@
    ("cannot comply with" :> {"i cannot comply with this request"}) @@
    ("against my programming" :> {"that is against my programming"}) @@
    ("violates my guidelines" :> {"this violates my guidelines"}) @@
    ("prognose:" :> {"prognose:", "hauptprognose:"}) @@
    ("hauptprognose:" :> {"hauptprognose:"}) @@
    ("forecast:" :> {"forecast:"}) @@
    ("prediction:" :> {"prediction:"}) @@
    ("probability:" :> {"probability:", "final probability:",
                        "ensemble probability:"}) @@
    ("wahrscheinlichkeit:" :> {"wahrscheinlichkeit:"}) @@
    ("final probability:" :> {"final probability:"}) @@
    ("ensemble probability:" :> {"ensemble probability:"}) @@
    ("result:" :> {"result:"}) @@
    ("answer:" :> {"answer:"}) @@
    ("conclusion:" :> {"conclusion:"}) @@
    ("final_probability" :> {"final_probability"}) @@
    ("percent" :> {"percent"})

(* token t holds a match of the (lower-case) pattern, compared ignoring case *)
Has(t, pattern) == t.k = "text" /\ Lower(t.s) \in Containing[pattern]

Tk(c, i) == IF i \in 1..Len(c) THEN c[i] ELSE EndTok
IsNum(t) == t.k = "num"
IsSym(t, s) == t.k = "sym" /\ t.s = s
IsEol(t) == t.k \in {"nl", "end"}
InRange(v) == 0 <= v /\ v <= Pct(100)

(* \s* : the first position at or after i that is not a newline *)
RECURSIVE Ws(_, _)
Ws(c, i) == IF Tk(c, i).k = "nl" THEN Ws(c, i + 1) ELSE i

MinOf(S) == CHOOSE x \in S : \A y \in S : x <= y
MaxOf(S) == CHOOSE x \in S : \A y \in S : x >= y

----------------------------------------------------------------------------
(* _extract_probability: the ordered cascade.  Every pattern operator      *)
(* returns the number the regular expression captures, or NoProb when the  *)
(* pattern does not match.                                                 *)

(* r'LABEL\s*(\d+(?:\.\d+)?)\s*%'  (re.search: the leftmost match) *)
LabelPct(c, label) ==
    LET S == {i \in 1..Len(c) :
                /\ Has(c[i], label)
                /\ IsNum(Tk(c, Ws(c, i + 1)))
                /\ IsSym(Tk(c, Ws(c, Ws(c, i + 1) + 1)), "%")}
    IN IF S = {} THEN NoProb ELSE Tk(c, Ws(c, MinOf(S) + 1)).v

(* r'\*\*LABEL\s*(\d+(?:\.\d+)?)\s*%\*\*' : the bold mark touches the label,
   so the label is the whole token *)
BoldLabelPct(c, label) ==
    LET S == {i \in 1..Len(c) :
                /\ IsSym(Tk(c, i - 1), "**")
                /\ c[i].k = "text" /\ Lower(c[i].s) = label
                /\ IsNum(Tk(c, Ws(c, i + 1)))
                /\ IsSym(Tk(c, Ws(c, Ws(c, i + 1) + 1)), "%")
                /\ IsSym(Tk(c, Ws(c, Ws(c, i + 1) + 1) + 1), "**")}
    IN IF S = {} THEN NoProb ELSE Tk(c, Ws(c, MinOf(S) + 1)).v

(* r'LABEL\s*\*\*(\d+(?:\.\d+)?)\s*%\*\*' *)
LabelBoldPct(c, label) ==
    LET S == {i \in 1..Len(c) :
                /\ Has(c[i], label)
                /\ IsSym(Tk(c, Ws(c, i + 1)), "**")
                /\ IsNum(Tk(c, Ws(c, i + 1) + 1))
                /\ IsSym(Tk(c, Ws(c, Ws(c, i + 1) + 2)), "%")
                /\ IsSym(Tk(c, Ws(c, Ws(c, i + 1) + 2) + 1), "**")}
    IN IF S = {} THEN NoProb ELSE Tk(c, Ws(c, MinOf(S) + 1) + 1).v

(* r'LABEL\s*(\d+(?:\.\d+)?)' *)
LabelNum(c, label) ==
    LET S == {i \in 1..Len(c) :
                /\ Has(c[i], label)
                /\ IsNum(Tk(c, Ws(c, i + 1)))}
    IN IF S = {} THEN NoProb ELSE Tk(c, Ws(c, MinOf(S) + 1)).v

(* for pattern in patterns: if match and 0 <= value <= 100: return value *)
RECURSIVE FirstInRange(_)
FirstInRange(vals) ==
    IF vals = <<>> THEN NoProb
    ELSE IF vals[1] # NoProb /\ InRange(vals[1]) THEN vals[1]
    ELSE FirstInRange(Tail(vals))

(* for pattern in patterns: if matches: return float(matches[-1]) *)
RECURSIVE FirstMatch(_)
FirstMatch(vals) ==
    IF vals = <<>> THEN NoProb
    ELSE IF vals[1] # NoProb THEN vals[1]
    ELSE FirstMatch(Tail(vals))

(* only the first pattern of the list is tried *)
LabeledPatterns_PercentOnly(c, label) ==
    FirstInRange(<<LabelPct(c, label)>>)

LabeledPatterns(c, label) ==
    FirstInRange(<<LabelPct(c, label), BoldLabelPct(c, label),
                   LabelBoldPct(c, label), LabelNum(c, label)>>)

hauptprognose_patterns(c) == LabeledPatterns(c, "hauptprognose:")
prognose_patterns(c) == LabeledPatterns(c, "prognose:")

(* positions j > q on the line of q (`.` matches no newline) *)
RECURSIVE SameLine(_, _, _)
SameLine(c, q, j) ==
    IF j <= q THEN TRUE
    ELSE Tk(c, j).k # "nl" /\ SameLine(c, q, j - 1)

(* r'Final_Probability\s*=\s*(\d+(?:\.\d+)?)'  (re.findall, last match) *)
FinalProbEq(c) ==
    LET S == {i \in 1..Len(c) :
                /\ Has(c[i], "final_probability")
                /\ IsSym(Tk(c, Ws(c, i + 1)), "=")
                /\ IsNum(Tk(c, Ws(c, Ws(c, i + 1) + 1)))}
    IN IF S = {} THEN NoProb
       ELSE Tk(c, Ws(c, Ws(c, MaxOf(S) + 1) + 1)).v

(* r'Final_Probability\s*=.*?(\d+(?:\.\d+)?)\s*%' : the match that starts at
   i ends at the first number of the line that a percent sign follows *)
FinalProbPctEnd(c, i) ==
    LET q == Ws(c, i + 1)
        J == {j \in (q + 1)..Len(c) :
                /\ SameLine(c, q, j)
                /\ IsNum(c[j])
                /\ IsSym(Tk(c, Ws(c, j + 1)), "%")}
    IN IF Has(Tk(c, i), "final_probability") /\ IsSym(Tk(c, q), "=") /\ J # {}
       THEN MinOf(J) ELSE 0

RECURSIVE FinalProbPctScan(_, _, _)
FinalProbPctScan(c, i, last) ==
    IF i > Len(c) THEN last
    ELSE LET j == FinalProbPctEnd(c, i)
         IN IF j = 0 THEN FinalProbPctScan(c, i + 1, last)
            ELSE FinalProbPctScan(c, Ws(c, j + 1) + 1, c[j].v)

FinalProbPct(c) == FinalProbPctScan(c, 1, NoProb)

(* r'=\s*(\d+(?:\.\d+)?)\s*(?:%)?$'  with re.MULTILINE *)
EqEol(c) ==
    LET S == {i \in 1..Len(c) :
                /\ IsSym(c[i], "=")
                /\ IsNum(Tk(c, Ws(c, i + 1)))
                /\ LET j == Ws(c, i + 1)
                   IN \/ IsEol(Tk(c, j + 1))
                      \/ /\ IsSym(Tk(c, Ws(c, j + 1)), "%")
                         /\ IsEol(Tk(c, Ws(c, j + 1) + 1))}
    IN IF S = {} THEN NoProb ELSE Tk(c, Ws(c, MaxOf(S) + 1)).v

final_prob_patterns(c) ==
    FirstInRange(<<FinalProbEq(c), FinalProbPct(c), EqEol(c)>>)

(* content.split('\n') *)
RECURSIVE SplitLines(_, _)
SplitLines(c, cur) ==
    IF c = <<>> THEN <<cur>>
    ELSE IF c[1].k = "nl" THEN <<cur>> \o SplitLines(Tail(c), <<>>)
    ELSE SplitLines(Tail(c), Append(cur, c[1]))

forecast_patterns ==
    <<"prognose:", "forecast:", "prediction:", "probability:",
      "wahrscheinlichkeit:", "final probability:", "ensemble probability:",
      "result:", "answer:", "conclusion:">>

HasPct(line) == \E i \in 1..Len(line) : IsSym(line[i], "%")
HasKeyword(line, p) == \E i \in 1..Len(line) : Has(line[i], p)

(* a colon is the last character of the labels and keywords, and appears   *)
(* nowhere else in the alphabet                                            *)
HasColon(t) ==
    t.k = "text" /\ \E i \in 1..Len(forecast_patterns) : Has(t, forecast_patterns[i])

(* line.split(":")[-1].strip() *)
AfterLastColon(line) ==
    LET S == {i \in 1..Len(line) : HasColon(line[i])}
    IN IF S = {} THEN line ELSE SubSeq(line, MaxOf(S) + 1, Len(line))

(* re.search(r'(\d+(?:\.\d+)?)\s*%', prob_text) *)
NumPctFirst(t) ==
    LET S == {j \in 1..Len(t) : IsNum(t[j]) /\ IsSym(Tk(t, Ws(t, j + 1)), "%")}
    IN IF S = {} THEN NoProb ELSE t[MinOf(S)].v

(* prob_text.replace("%", "") *)
StripPct(t) == SelectSeq(t, LAMBDA x : ~IsSym(x, "%"))
Numbers(t) == SelectSeq(t, IsNum)

(* lines 361-369: the text the probability is looked for in: the rest of
   the keyword line i when that line has a percent sign, else the first of
   the next two lines that has one; found is False when there is none *)
prob_text(lines, i) ==
    IF HasPct(lines[i]) THEN <<AfterLastColon(lines[i])>>
    ELSE IF i + 1 <= Len(lines) /\ HasPct(lines[i + 1]) THEN <<lines[i + 1]>>
    ELSE IF i + 2 <= Len(lines) /\ HasPct(lines[i + 2]) THEN <<lines[i + 2]>>
    ELSE <<>>

(* lines 385-399: no percentage in range; nums are the bare numbers of the
   text without its percent signs *)
RangeOrNumber(bare, nums) ==
    IF (\E j \in 1..Len(bare) : IsSym(bare[j], "-")) /\ Len(nums) >= 2
    THEN (nums[1].v + nums[2].v) \div 2
    ELSE IF nums = <<>> THEN NoProb
    ELSE IF 0 < nums[1].v /\ nums[1].v <= Pct(1) THEN nums[1].v * 100
    ELSE IF InRange(nums[1].v) THEN nums[1].v
    ELSE NoProb

(* lines 371-383 *)
PercentOrBare(pm, bare) ==
    IF pm # NoProb /\ InRange(pm) THEN pm
    ELSE RangeOrNumber(bare, Numbers(bare))

ProbTextValue(t) == PercentOrBare(NumPctFirst(t), StripPct(t))

(* lines 361-400: the value the keyword line i yields, or NoProb (continue) *)
KeywordLine(found) ==
    IF found = <<>> THEN NoProb ELSE ProbTextValue(found[1])

(* for i, line in enumerate(lines): the first keyword line that returns *)
RECURSIVE KeywordLines(_, _, _)
KeywordLines(lines, p, i) ==
    IF i > Len(lines) THEN NoProb
    ELSE IF HasKeyword(lines[i], p) /\ KeywordLine(prob_text(lines, i)) # NoProb
         THEN KeywordLine(prob_text(lines, i))
    ELSE KeywordLines(lines, p, i + 1)

(* for pattern in forecast_patterns *)
RECURSIVE KeywordSearch(_, _)
KeywordSearch(c, k) ==
    IF k > Len(forecast_patterns) THEN NoProb
    ELSE LET v == KeywordLines(SplitLines(c, <<>>), forecast_patterns[k], 1)
         IN IF v # NoProb THEN v ELSE KeywordSearch(c, k + 1)

(* r'(\d+(?:\.\d+)?)\s*%'  (re.findall, last match) *)
NumPctLast(c) ==
    LET S == {j \in 1..Len(c) : IsNum(c[j]) /\ IsSym(Tk(c, Ws(c, j + 1)), "%")}
    IN IF S = {} THEN NoProb ELSE c[MaxOf(S)].v

(* r'(\d+(?:\.\d+)?)\s*percent' *)
NumPercentLast(c) ==
    LET S == {j \in 1..Len(c) :
                /\ IsNum(c[j])
                /\ Tk(c, Ws(c, j + 1)).k = "text"
                /\ Lower(Tk(c, Ws(c, j + 1)).s) = "percent"}
    IN IF S = {} THEN NoProb ELSE c[MaxOf(S)].v

(* r'Final_Probability.*?(\d+(?:\.\d+)?)' : a match starts at a label that a
   number follows on its line and ends at the first such number; when eq,
   r'Final_Probability\s*=.*?(\d+(?:\.\d+)?)' *)
FinalProbAnyEnd(c, i, eq) ==
    LET q == IF eq THEN Ws(c, i + 1) ELSE i
        J == {j \in (q + 1)..Len(c) : SameLine(c, q, j) /\ IsNum(c[j])}
    IN IF /\ Has(Tk(c, i), "final_probability")
          /\ (eq => IsSym(Tk(c, q), "="))
          /\ J # {}
       THEN MinOf(J) ELSE 0

RECURSIVE FinalProbAnyScan(_, _, _, _)
FinalProbAnyScan(c, i, eq, last) ==
    IF i > Len(c) THEN last
    ELSE LET j == FinalProbAnyEnd(c, i, eq)
         IN IF j = 0 THEN FinalProbAnyScan(c, i + 1, eq, last)
            ELSE FinalProbAnyScan(c, j + 1, eq, c[j].v)

(* lines 404-430.  Every other pattern of the list requires a number that a
   percent sign follows, so it matches only where the first one has. *)
percentage_patterns(c) ==
    FirstMatch(<<NumPctLast(c), NumPercentLast(c),
                 FinalProbAnyScan(c, 1, FALSE, NoProb)>>)

(* lines 434-450.  The division pattern needs characters that are not in the
   alphabet; the Antwort/Ergebnis patterns require a percentage. *)
formula_patterns(c) ==
    FirstInRange(<<FinalProbAnyScan(c, 1, TRUE, NoProb), EqEol(c)>>)

(* lines 454-459: the bare numbers from the end backwards, first in range *)
RECURSIVE LastInRange(_)
LastInRange(nums) ==
    IF nums = <<>> THEN NoProb
    ELSE IF InRange(nums[Len(nums)].v) THEN nums[Len(nums)].v
    ELSE LastInRange(SubSeq(nums, 1, Len(nums) - 1))

last_resort(c) == LastInRange(Numbers(c))

(* A content that is not a str (the JSON value of "content" is a list of
   parts, say): one token of kind "object". *)
Obj == [k |-> "object", s |-> "", v |-> 0]
NotAString == <<Obj>>
IsStr(c) == \A i \in 1..Len(c) : c[i].k # "object"

(* the generic percentage patterns are tried before the labeled ones *)
TryBody_PercentageFirst(c) ==
    IF \E i \in 1..Len(c) : c[i].k = "object"
    THEN [raised |-> TRUE, value |-> NoProb]
    ELSE [raised |-> FALSE,
          value |-> FirstMatch(<<percentage_patterns(c),
                                 hauptprognose_patterns(c), prognose_patterns(c),
                                 final_prob_patterns(c), KeywordSearch(c, 1),
                                 formula_patterns(c), last_resort(c)>>)]

(* lines 284-459, the body of the try statement: the value it returns, or
   raised when it raises (re.search raises TypeError when the content is
   not a str; on a str no statement of the body can raise) *)
TryBody(c) ==
    IF ~IsStr(c) THEN [raised |-> TRUE, value |-> NoProb]
    ELSE [raised |-> FALSE,
          value |-> FirstMatch(<<hauptprognose_patterns(c), prognose_patterns(c),
                                 final_prob_patterns(c), KeywordSearch(c, 1),
                                 percentage_patterns(c), formula_patterns(c),
                                 last_resort(c)>>)]

(* the exception leaves the function *)
ExceptHandler_Reraise(r) == r

(* lines 461-464: except Exception: log a warning; return None *)
ExceptHandler(r) ==
    IF r.raised THEN [raised |-> FALSE, value |-> NoProb] ELSE r

(* lines 270-464: one call of the function *)
ExtractCall(c) ==
    IF c = <<>> THEN [raised |-> FALSE, value |-> NoProb]
    ELSE ExceptHandler(TryBody(c))

(* _extract_probability: the value returned *)
_extract_probability(c) == ExtractCall(c).value

----------------------------------------------------------------------------
(* Optional values: None is the empty sequence, a value x is <<x>>. *)

None == <<>>
Some(x) == <<x>>

(* The model identifiers and prompts of a run *)
Models == {"google/gemini-2.0-flash-exp", "openai/gpt-oss-20b"}
Prompts == {"p1", "p2"}

(* The calls of query_model: one slot for direct calls (test_connection and
   other callers), and one per task of each batch_query call. *)
Direct == <<"direct", 0>>
BatchTasks == Models \X (1..Iterations)
TaskIds == {Direct} \cup BatchTasks
TasksOf(m) == {t \in BatchTasks : t[1] = m}

----------------------------------------------------------------------------
(* CacheManager (core/cache_manager.py): get and set, time-based expiry.   *)

(* the key is derived from the model alone *)
CacheKey_ModelOnly(model, prompt) == <<model, "p1">>

CacheKey(model, prompt) == <<model, prompt>>
CacheKeys == Models \X Prompts

(* an entry is returned however old it is *)
CacheGet_NoExpiry(store, t, model, prompt) ==
    LET e == store[CacheKey(model, prompt)]
    IN IF e = None THEN None ELSE Some(e[1].value)

CacheGet(store, t, model, prompt) ==
    LET e == store[CacheKey(model, prompt)]
    IN IF e = None \/ t >= e[1].expires_at THEN None ELSE Some(e[1].value)

CacheSet(store, t, model, prompt, value) ==
    [store EXCEPT ![CacheKey(model, prompt)] =
        Some([value |-> value, expires_at |-> t + CacheTTL])]

----------------------------------------------------------------------------
(* What _post_completion can produce for one backend call.                 *)
(*   curl_failed    curl exits non-zero (connection reset, DNS, ...):      *)
(*                  RuntimeError                                           *)
(*   bad_json       stdout is no JSON: RuntimeError                        *)
(*   timeout_error  the await raises asyncio.TimeoutError                  *)
(*   error_payload  {"error": {...}}, with or without a message            *)
(*   completion     {"choices": [{"message": {"content": ...}}], ...}      *)
(*   no_choices     an object without error and without choices           *)

Resp(kind, msg, content, usage) ==
    [kind |-> kind, msg |-> msg, content |-> content, usage |-> usage]

ZeroUsage == [prompt_tokens |-> 0, completion_tokens |-> 0, total_tokens |-> 0]
SomeUsage == [prompt_tokens |-> 12, completion_tokens |-> 30, total_tokens |-> 42]

ConnectionReset == "curl request failed (code 56): Connection reset by peer"
ParseFailure == "Failed to parse OpenRouter response"
CacheWriteFailure == "cache write failed"

rejection_patterns ==
    {"cannot ignore my safety instructions", "must decline this request",
     "attempt to override", "cannot comply with", "against my programming",
     "violates my guidelines"}

(* any(pattern in content_lower for pattern in rejection_patterns) *)
is_rejected(content) ==
    \E pattern \in rejection_patterns :
        \E i \in 1..Len(content) : Has(content[i], pattern)

(* choices[0].get("message", {}).get("content", "") or "" *)
ContentOf(resp) ==
    IF resp.kind = "completion" /\ resp.content # None THEN resp.content[1]
    ELSE <<>>

(* the final validation left out *)
ValidatedProbability_Unchecked(content) == _extract_probability(content)

(* lines 168-179: extraction and the final validation *)
ValidatedProbability(content) ==
    LET probability == _extract_probability(content)
    IN IF probability # NoProb /\ (probability < 0 \/ probability > Pct(100))
       THEN NoProb ELSE probability

(* lines 126-141 *)
ErrorPayloadResult(a, st, nw, resp) ==
    [model |-> a.model, timestamp |-> st, response_time |-> nw - st,
     content |-> None, probability |-> NoProb, log_probabilities |-> None,
     usage |-> ZeroUsage,
     error |-> IF resp.msg = None THEN "Unknown error" ELSE resp.msg[1],
     status |-> "error", response_source |-> "api"]

(* status=rejected only when no probability was extracted *)
CompletionResult_RejectWhenNoForecast(a, st, nw, resp) ==
    LET content == ContentOf(resp)
        probability == _extract_probability(content)
    IN [model |-> a.model, timestamp |-> st, response_time |-> nw - st,
        content |-> Some(content),
        probability |-> IF probability # NoProb /\ InRange(probability)
                        THEN probability ELSE NoProb,
        log_probabilities |-> None,
        usage |-> IF resp.usage = None THEN ZeroUsage ELSE resp.usage[1],
        status |-> IF is_rejected(content) /\ probability = NoProb
                   THEN "rejected" ELSE "success",
        response_source |-> "api"]

(* a content without a probability is reported as an error, without its
   content *)
CompletionResult_ErrorWhenNoForecast(a, st, nw, resp) ==
    LET content == ContentOf(resp)
        none == ValidatedProbability(content) = NoProb /\ ~is_rejected(content)
    IN [model |-> a.model, timestamp |-> st, response_time |-> nw - st,
        content |-> IF none THEN None ELSE Some(content),
        probability |-> ValidatedProbability(content),
        log_probabilities |-> None,
        usage |-> IF resp.usage = None THEN ZeroUsage ELSE resp.usage[1],
        status |-> IF is_rejected(content) THEN "rejected"
                   ELSE IF none THEN "error" ELSE "success",
        response_source |-> "api"]

(* lines 188-202 *)
CompletionResult(a, st, nw, resp) ==
    LET content == ContentOf(resp)
    IN [model |-> a.model, timestamp |-> st, response_time |-> nw - st,
        content |-> Some(content),
        probability |-> ValidatedProbability(content),
        log_probabilities |-> None,
        usage |-> IF resp.usage = None THEN ZeroUsage ELSE resp.usage[1],
        status |-> IF is_rejected(content) THEN "rejected" ELSE "success",
        response_source |-> "api"]

(* lines 211-221 *)
TimeoutResult(a, st) ==
    [model |-> a.model, timestamp |-> st, response_time |-> Timeout,
     content |-> None, probability |-> NoProb,
     error |-> "Request timeout", status |-> "timeout"]

(* lines 223-233 *)
ExceptionResult(a, st, nw, message) ==
    [model |-> a.model, timestamp |-> st, response_time |-> nw - st,
     content |-> None, probability |-> NoProb,
     error |-> message, status |-> "error"]

(* every result is written to the cache, whatever its status *)
ShouldCache_AnyStatus(enabled, res) == enabled

(* line 205: the result is written to the cache *)
ShouldCache(enabled, res) == enabled /\ res.status = "success"

(* the error payload is not looked at: the response is processed as a
   completion *)
QueryResult_ErrorUnchecked(enabled, a, st, nw, resp, wfault) ==
    CASE resp.kind = "curl_failed" -> ExceptionResult(a, st, nw, ConnectionReset)
      [] resp.kind = "bad_json" -> ExceptionResult(a, st, nw, ParseFailure)
      [] resp.kind = "timeout_error" -> TimeoutResult(a, st)
      [] OTHER ->
            LET res == CompletionResult(a, st, nw, resp)
            IN IF ShouldCache(enabled, res) /\ wfault
               THEN ExceptionResult(a, st, nw, CacheWriteFailure)
               ELSE res

(* lines 120-233: the dictionary query_model returns once the backend call
   has ended with resp; wfault: cache.set raises *)
QueryResult(enabled, a, st, nw, resp, wfault) ==
    CASE resp.kind = "curl_failed" -> ExceptionResult(a, st, nw, ConnectionReset)
      [] resp.kind = "bad_json" -> ExceptionResult(a, st, nw, ParseFailure)
      [] resp.kind = "timeout_error" -> TimeoutResult(a, st)
      [] resp.kind = "error_payload" -> ErrorPayloadResult(a, st, nw, resp)
      [] OTHER ->
            LET res == CompletionResult(a, st, nw, resp)
            IN IF ShouldCache(enabled, res) /\ wfault
               THEN ExceptionResult(a, st, nw, CacheWriteFailure)
               ELSE res

(* the entry is stored although the write raised *)
CacheAfter_WriteKept(store, enabled, a, st, nw, resp, wfault) ==
    IF resp.kind \in {"completion", "no_choices"}
    THEN LET res == CompletionResult(a, st, nw, resp)
         IN IF ShouldCache(enabled, res)
            THEN CacheSet(store, nw, a.model, a.prompt, res)
            ELSE store
    ELSE store

(* the cache after the processing of resp *)
CacheAfter(store, enabled, a, st, nw, resp, wfault) ==
    IF resp.kind \in {"completion", "no_choices"}
    THEN LET res == CompletionResult(a, st, nw, resp)
         IN IF ShouldCache(enabled, res) /\ ~wfault
            THEN CacheSet(store, nw, a.model, a.prompt, res)
            ELSE store
    ELSE store

----------------------------------------------------------------------------
(* Inputs *)

HauptText == <<Txt("HAUPTPROGNOSE:"), Num(Pct(42)), Sym("%")>>
OverText == <<Txt("maybe"), Num(Pct(150)), Sym("%")>>
RefusalText == <<Txt("I CANNOT COMPLY WITH this request")>>
RefusalWithForecast ==
    <<Txt("HAUPTPROGNOSE:"), Num(Pct(42)), Sym("%"), NL,
      Txt("this violates my guidelines")>>
Contents == {HauptText, OverText, RefusalText, RefusalWithForecast}

Failures ==
    {Resp("curl_failed", None, None, None),
     Resp("bad_json", None, None, None),
     Resp("timeout_error", None, None, None),
     Resp("error_payload", Some("Rate limit exceeded"), None, None),
     Resp("error_payload", None, None, None)}

Completions ==
    {Resp("completion", None, Some(c), None) : c \in Contents}
    \cup {Resp("no_choices", None, None, None)}

Responses == Failures \cup Completions

(* the outcomes of self.cache.get: a value, or an exception of a class the
   backoff decorator retries, or any other exception *)
Faults == {"none", "retryable", "other"}

ArgsOf(m, p, f) == [model |-> m, prompt |-> p, force_refresh |-> f]
NoArgs == ArgsOf("", "", FALSE)

(* what a call has done so far: backend calls, cache.get calls, cache.set
   calls, _extract_probability calls, the outcome of its last cache.get
   and the value of a hit *)
ZeroObs ==
    [calls |-> 0, reads |-> 0, sets |-> 0, extracts |-> 0, fault |-> "none",
     hit |-> None]

----------------------------------------------------------------------------
(* State machine *)

ClientInit ==
    /\ now = 0
    /\ use_cache \in BOOLEAN
    /\ cache = [k \in CacheKeys |-> None]
    /\ pc = [t \in TaskIds |-> "idle"]
    /\ args = [t \in TaskIds |-> NoArgs]
    /\ tries = [t \in TaskIds |-> 0]
    /\ began = [t \in TaskIds |-> 0]
    /\ start_time = [t \in TaskIds |-> 0]
    /\ got = [t \in TaskIds |-> None]
    /\ result = [t \in TaskIds |-> None]
    /\ obs = [t \in TaskIds |-> ZeroObs]
    /\ sem = [m \in Models |-> 0]
    /\ batchpc = [m \in Models |-> "idle"]
    /\ batchres = [m \in Models |-> <<>>]
    /\ queries = 0

(* no job has been created *)

RunInit ==
    /\ job = None
    /\ runpc = "nojob"
    /\ forecast = None
    /\ saved = 0
    /\ reported = 0
    /\ statistics = None
    /\ exc = None
    /\ notice = "none"
    /\ model_responses = <<>>
    /\ forecast_result = None
    /\ deleted = FALSE
    /\ eta_trackers = {}

ExtractIdle ==
    /\ text = <<>>
    /\ outcome = None

NoRequest == [model |-> "", max_tokens |-> 0, enable_web_search |-> FALSE]

PayloadIdle ==
    /\ request = NoRequest
    /\ payload = None

(* main.py, lines 294-310: the defaults of the parser *)
NoArguments ==
    [mode |-> "interactive", dry_run |-> FALSE, no_cache |-> FALSE,
     dev_mode |-> FALSE, cache_stats |-> FALSE, question |-> FALSE]

CliIdle ==
    /\ argv = NoArguments
    /\ clipc = "idle"
    /\ analyzer = None
    /\ api_calls = 0

(* eta_calculator.py: times are in half seconds, so that the time of one
   of two queries completed together is exact *)

EtaModels == {"m1", "m2"}

(* lines 10-22: ETACalculator(); query_times is a deque of at most
   window_size entries, last_update_time is set or not *)
ETACalculator ==
    [total_queries |-> 0, completed_queries |-> 0, query_times |-> <<>>,
     last_update_time |-> FALSE]

(* lines 24-35: start *)
start(calc, total_queries) ==
    [total_queries |-> total_queries, completed_queries |-> 0,
     query_times |-> <<>>, last_update_time |-> TRUE]

(* deque(maxlen=window_size).append: the oldest entry leaves a full deque *)
Appended(times, x) ==
    IF Len(times) < WindowSize THEN Append(times, x)
    ELSE Append(Tail(times), x)

(* line 50: time_delta / queries_completed if queries_completed > 0
   else time_delta *)
per_query_time(time_delta, queries_completed) ==
    IF queries_completed > 0 THEN (2 * time_delta) \div queries_completed
    ELSE 2 * time_delta

(* lines 37-54: update, time_delta seconds after the last update *)
update(calc, queries_completed, time_delta) ==
    [total_queries |-> calc.total_queries,
     completed_queries |-> calc.completed_queries + queries_completed,
     query_times |->
         IF calc.last_update_time
         THEN Appended(calc.query_times,
                       per_query_time(time_delta, queries_completed))
         ELSE calc.query_times,
     last_update_time |-> TRUE]

(* line 71: sum(self.query_times) *)
RECURSIVE sum(_)
sum(times) == IF times = <<>> THEN 0 ELSE Head(times) + sum(Tail(times))

(* lines 56-76: get_eta, whole seconds *)
get_eta(calc) ==
    IF calc.query_times = <<>> \/ calc.completed_queries = 0 THEN None
    ELSE IF calc.total_queries - calc.completed_queries <= 0 THEN Some(0)
    ELSE Some((sum(calc.query_times)
                 * (calc.total_queries - calc.completed_queries))
              \div (2 * Len(calc.query_times)))

get_progress_Unclamped(calc) ==
    IF calc.total_queries = 0 THEN <<0, 1>>
    ELSE <<calc.completed_queries, calc.total_queries>>

(* lines 110-121: get_progress, as the fraction <<numerator, denominator>> *)
get_progress(calc) ==
    IF calc.total_queries = 0 THEN <<0, 1>>
    ELSE IF calc.completed_queries >= calc.total_queries THEN <<1, 1>>
    ELSE IF calc.completed_queries <= 0 THEN <<0, 1>>
    ELSE <<calc.completed_queries, calc.total_queries>>

(* lines 197-200: ModelETATracker() *)
ModelETATracker ==
    [model_calculators |-> [m \in EtaModels |-> None],
     global_calculator |-> ETACalculator]

NoEtaOp == [op |-> "none", model |-> "", n |-> 0, calls |-> 0]

EtaIdle ==
    /\ tracker = ModelETATracker
    /\ eta_op = NoEtaOp

(* api.py, line 49: active_connections = {}; no client has connected *)
Connections == 1..MaxConnections

WsIdle ==
    /\ active_connections = None
    /\ websockets = [c \in Connections |-> "new"]
    /\ received = [c \in Connections |-> 0]

(* models.py, lines 79-106: the table forecast_results starts empty; no call
   of save_result has been made *)
NoSaveArgs ==
    [job_id |-> "", ensemble_probability |-> None, total_queries |-> 0,
     successful_queries |-> 0, failed_queries |-> 0]

SaveIdle ==
    /\ forecast_results = <<>>
    /\ save_call = [n |-> 0, args |-> NoSaveArgs, existing |-> FALSE,
                    raised |-> FALSE]

Init ==
    /\ ClientInit
    /\ WsIdle
    /\ EtaIdle
    /\ SaveIdle
    /\ RunInit
    /\ ExtractIdle
    /\ PayloadIdle
    /\ CliIdle

(* the cache is consulted also when a refresh is forced *)
Lookup_IgnoreForceRefresh(a) == use_cache

(* lines 77-79: the cache is consulted *)
Lookup(a) == use_cache /\ ~a.force_refresh

(* backoff.on_exception(expo, (ClientError, TimeoutError), max_tries=3,
   max_time=60): the exception of attempt n is retried *)
Retried(fault, n, elapsed) ==
    fault = "retryable" /\ n < MaxTries /\ elapsed < MaxTime

(* the cached entry is not returned: the call goes on to the backend *)
AttemptPc_IgnoreHit(a, n, bg, fault) ==
    IF Lookup(a) /\ fault # "none"
    THEN IF Retried(fault, n, now - bg) THEN "backoff" ELSE "raised"
    ELSE "inflight"

(* lines 76-120: one attempt of query_model up to its first await.
   The position the call is in afterwards. *)
AttemptPc(a, n, bg, fault) ==
    IF Lookup(a) /\ fault # "none"
    THEN IF Retried(fault, n, now - bg) THEN "backoff" ELSE "raised"
    ELSE IF Lookup(a) /\ CacheGet(cache, now, a.model, a.prompt) # None
         THEN "done"
    ELSE "inflight"

(* lines 79-82: the dictionary returned on a cache hit *)
HitResult(cached) == [cached EXCEPT !.response_source = "cache"]

AttemptResult(a, n, bg, fault) ==
    IF AttemptPc(a, n, bg, fault) = "done"
    THEN Some(HitResult(CacheGet(cache, now, a.model, a.prompt)[1]))
    ELSE None

AttemptObs(o, a, n, bg, fault) ==
    LET p == AttemptPc(a, n, bg, fault)
    IN [o EXCEPT !.reads = IF Lookup(a) THEN @ + 1 ELSE @,
                 !.calls = IF p = "inflight" THEN @ + 1 ELSE @,
                 !.fault = IF Lookup(a) THEN fault ELSE "none",
                 !.hit = IF p = "done"
                         THEN CacheGet(cache, now, a.model, a.prompt)
                         ELSE @]

Finished(p) == p \in {"done", "raised"}

(* the iteration number counts from zero *)
WithIteration_ZeroBased(r, i) == [iteration |-> i - 1] @@ r

(* line 262: result["iteration"] = iteration + 1 *)
WithIteration(r, i) == [iteration |-> i] @@ r

(* lines 258-268: what the end of a step of call t does to its batch: the
   semaphore is released when limited_query leaves `async with`, and
   asyncio.gather ends with the first exception of a task, or with the list
   of all results, in task order, when the last task has returned.
   p: the position of t after the step; acquired: the step began with the
   acquisition of the semaphore. *)
Leave(t, p, acquired) ==
    IF t \in BatchTasks
    THEN LET m == t[1]
         IN /\ sem' = [sem EXCEPT ![m] = @ - (IF acquired THEN 1 ELSE 0)
                                           + (IF Finished(p) THEN 1 ELSE 0)]
            /\ batchpc' = [batchpc EXCEPT ![m] =
                  IF @ # "gathering" THEN @
                  ELSE IF p = "raised" THEN "raised"
                  ELSE IF p = "done"
                          /\ \A u \in TasksOf(m) \ {t} : pc[u] = "done"
                       THEN "returned"
                  ELSE @]
            /\ batchres' = [batchres EXCEPT ![m] =
                  IF batchpc'[m] = "returned" /\ batchpc[m] = "gathering"
                  THEN [i \in 1..Iterations |-> result'[<<m, i>>][1]]
                  ELSE @]
    ELSE UNCHANGED <<sem, batchpc, batchres>>

(* one attempt of call t (the n-th) with arguments a *)
Attempt(t, a, n, bg, fault, o, acquired) ==
    LET p == AttemptPc(a, n, bg, fault)
        r == AttemptResult(a, n, bg, fault)
    IN /\ pc' = [pc EXCEPT ![t] = p]
       /\ tries' = [tries EXCEPT ![t] = n]
       /\ began' = [began EXCEPT ![t] = bg]
       /\ start_time' = [start_time EXCEPT ![t] = IF p = "inflight" THEN now ELSE 0]
       /\ result' = [result EXCEPT ![t] =
             IF r # None /\ t \in BatchTasks
             THEN Some(WithIteration(r[1], t[2])) ELSE r]
       /\ obs' = [obs EXCEPT ![t] = AttemptObs(o, a, n, bg, fault)]
       /\ got' = [got EXCEPT ![t] = None]
       /\ Leave(t, p, acquired)
       /\ UNCHANGED <<now, use_cache, cache, notclient>>

(* a caller invokes query_model(model, prompt, force_refresh=f) *)
Call(m, p, f, fault) ==
    /\ pc[Direct] \in {"idle", "done", "raised"}
    /\ queries < MaxQueries
    /\ queries' = queries + 1
    /\ args' = [args EXCEPT ![Direct] = ArgsOf(m, p, f)]
    /\ Attempt(Direct, ArgsOf(m, p, f), 1, now, fault, ZeroObs, FALSE)

(* batch_query(model, prompt, iterations, concurrent_limit) is invoked:
   lines 256-266 up to the await of asyncio.gather *)
StartBatch(m, p, concurrent_limit) ==
    /\ batchpc[m] = "idle"
    /\ batchpc' = [batchpc EXCEPT ![m] = "gathering"]
    /\ sem' = [sem EXCEPT ![m] = concurrent_limit]
    /\ pc' = [t \in TaskIds |-> IF t \in TasksOf(m) THEN "queued" ELSE pc[t]]
    /\ args' = [t \in TaskIds |->
                  IF t \in TasksOf(m) THEN ArgsOf(m, p, FALSE) ELSE args[t]]
    /\ UNCHANGED <<now, use_cache, cache, tries, began, start_time, got,
                   result, obs, batchres, queries, notclient>>

(* the end of a backend call is handled before the tasks that can run *)
Admissible_Never(m) == FALSE

(* lines 256-266: a task of the batch waits to run although the semaphore is
   free; the event loop runs the tasks gather has scheduled, and a waiter
   woken by a release, before it handles the end of a backend call *)
Admissible(m) ==
    sem[m] > 0 /\ \E u \in TasksOf(m) : pc[u] = "queued"

(* lines 259-261: limited_query acquires the semaphore (waiters are served
   in the order of their tasks) and calls query_model *)
Admit(t, fault) ==
    /\ t \in BatchTasks
    /\ pc[t] = "queued"
    /\ sem[t[1]] > 0
    /\ \A u \in TasksOf(t[1]) : pc[u] = "queued" => t[2] <= u[2]
    /\ Attempt(t, args[t], 1, now, fault, ZeroObs, TRUE)
    /\ UNCHANGED <<args, queries>>

(* the backoff decorator calls query_model again after its sleep *)
Retry(t, fault) ==
    /\ pc[t] = "backoff"
    /\ Attempt(t, args[t], tries[t] + 1, began[t], fault, obs[t], FALSE)
    /\ UNCHANGED <<args, queries>>

(* lines 120-233: the backend call of t ends with resp and query_model
   runs to its return *)
Respond(t, resp, wfault) ==
    /\ pc[t] = "inflight"
    /\ t \in BatchTasks => ~Admissible(t[1])
    /\ LET a == args[t]
           r == QueryResult(use_cache, a, start_time[t], now, resp, wfault)
           done == resp.kind \in {"completion", "no_choices"}
       IN /\ result' = [result EXCEPT ![t] =
                IF t \in BatchTasks THEN Some(WithIteration(r, t[2]))
                ELSE Some(r)]
          /\ cache' = CacheAfter(cache, use_cache, a, start_time[t], now,
                                 resp, wfault)
          /\ obs' = [obs EXCEPT ![t] =
                [@ EXCEPT !.extracts = IF done THEN @ + 1 ELSE @,
                          !.sets = IF done /\ ShouldCache(use_cache,
                                        CompletionResult(a, start_time[t], now, resp))
                                   THEN @ + 1 ELSE @]]
          /\ got' = [got EXCEPT ![t] = Some([resp |-> resp, wfault |-> wfault])]
    /\ pc' = [pc EXCEPT ![t] = "done"]
    /\ start_time' = [start_time EXCEPT ![t] = 0]
    /\ Leave(t, "done", FALSE)
    /\ UNCHANGED <<now, use_cache, args, tries, began, queries,
                   notclient>>

(* time passes *)
Tick ==
    /\ now < MaxClock
    /\ now' = now + 1
    /\ UNCHANGED <<use_cache, cache, pc, args, tries, began, start_time, got,
                   result, obs, sem, batchpc, batchres, queries,
                   notclient>>

(* direct calls of query_model on one client *)
QueryModels == {"google/gemini-2.0-flash-exp"}

NextQuery ==
    \/ \E m \in QueryModels, p \in Prompts, f \in BOOLEAN, fault \in Faults :
          Call(m, p, f, fault)
    \/ \E fault \in Faults : Retry(Direct, fault)
    \/ \E resp \in Responses, wfault \in BOOLEAN : Respond(Direct, resp, wfault)
    \/ Tick

SpecQuery == Init /\ [][NextQuery]_vars

(* a run: batch_query is invoked once for each model, the batches being
   scheduled together; one prompt, the backend answers at once *)
BatchResponses ==
    {Resp("completion", None, Some(HauptText), None),
     Resp("completion", None, Some(RefusalText), None),
     Resp("error_payload", Some("Rate limit exceeded"), None, None)}

BatchFaults == {"none", "other"}

NextBatch ==
    \/ \E m \in Models : StartBatch(m, "p1", ConcurrentLimit)
    \/ \E t \in BatchTasks, fault \in BatchFaults : Admit(t, fault)
    \/ \E t \in BatchTasks, resp \in BatchResponses, wfault \in BOOLEAN :
          Respond(t, resp, wfault)

SpecBatch == Init /\ [][NextBatch]_vars

(* one call of batch_query, whose backend calls take time *)
NextOneBatch ==
    \/ \E m \in QueryModels, limit \in 1..ConcurrentLimit :
          StartBatch(m, "p1", limit)
    \/ \E t \in QueryModels \X (1..Iterations), fault \in BatchFaults :
          Admit(t, fault)
    \/ \E t \in QueryModels \X (1..Iterations), resp \in BatchResponses,
          wfault \in BOOLEAN : Respond(t, resp, wfault)
    \/ Tick

SpecOneBatch == Init /\ [][NextOneBatch]_vars

----------------------------------------------------------------------------
(* _extract_probability on its own: the contents it is called with *)

RECURSIVE SeqsUpTo(_, _)
SeqsUpTo(S, n) ==
    IF n = 0 THEN {<<>>}
    ELSE LET shorter == SeqsUpTo(S, n - 1)
         IN shorter \cup {Append(q, x) : q \in shorter, x \in S}

(* the labels of lines 288-292 and 306-310, as a response may case them *)
PrimaryLabels == {"HAUPTPROGNOSE:", "hauptprognose:"}
LegacyLabels == {"PROGNOSE:", "Prognose:"}
Formats == {"percent", "bold", "bold_value", "bare"}

(* a value written in the format of one of the four patterns of a label *)
Marker(format, label, p) ==
    CASE format = "percent" -> <<Txt(label), Num(p), Sym("%")>>
      [] format = "bold" ->
            <<Sym("**"), Txt(label), Num(p), Sym("%"), Sym("**")>>
      [] format = "bold_value" ->
            <<Txt(label), Sym("**"), Num(p), Sym("%"), Sym("**")>>
      [] OTHER -> <<Txt(label), Num(p)>>

(* 0, 42.5 and 100 are probabilities; 150 is none *)
MarkerValues == {0, Pct(42) + 100, Pct(100), Pct(150)}

(* what precedes and what follows the marker in the content *)
Heads == {<<>>, <<Num(Pct(30)), Sym("%"), NL>>}
TailAlphabet == {Num(Pct(30)), Sym("%"), Sym("-"), NL, Txt("maybe")}
Tails == SeqsUpTo(TailAlphabet, MaxTail)

Marked ==
    {h \o Marker(f, l, p) \o t :
        h \in Heads, f \in Formats, l \in PrimaryLabels \cup LegacyLabels,
        p \in MarkerValues, t \in Tails}

Alphabet ==
    {Num(Pct(42)), Num(Pct(150)), Sym("%"), Sym("-"), Sym("="), NL,
     Txt("maybe"), Txt("Forecast:"), Txt("Final_Probability")}
Plain == SeqsUpTo(Alphabet, MaxLen)

(* "Forecast: 150 - 250%" *)
RangeText ==
    <<Txt("Forecast:"), Num(Pct(150)), Sym("-"), Num(Pct(250)), Sym("%")>>

Texts == Plain \cup Marked \cup {RangeText, NotAString}

InitExtract ==
    /\ ClientInit
    /\ WsIdle
    /\ EtaIdle
    /\ SaveIdle
    /\ use_cache
    /\ RunInit
    /\ PayloadIdle
    /\ CliIdle
    /\ text \in Texts
    /\ outcome = None

(* self._extract_probability(content) *)
Extract ==
    /\ outcome = None
    /\ outcome' = Some(ExtractCall(text))
    /\ UNCHANGED <<text, notextract>>

NextExtract == Extract

SpecExtract == InitExtract /\ [][NextExtract]_vars

----------------------------------------------------------------------------
(* query_model, lines 84-118: the token budget and the payload of the      *)
(* backend call.                                                           *)

GeminiFloor == 8 * 1000
FamilyFloor == 4 * 1000

(* model ids: the default list of get_available_models, one of them in
   upper case, and an id that holds the names of two families *)
ModelIds ==
    {"google/gemini-2.0-flash-exp", "openai/gpt-oss-20b",
     "meta-llama/llama-3.3-70b-instruct", "x-ai/grok-4-fast",
     "deepseek/deepseek-chat-v3.1", "qwen/qwen-2.5-72b-instruct",
     "Google/Gemini-2.0-Flash-Exp", "local/gemini-llama-merge"}

(* `word in model.lower()` for the family words of lines 88-97 *)
FamilyWords ==
    ("google/gemini-2.0-flash-exp" :> {"gemini"}) @@
    ("openai/gpt-oss-20b" :> {}) @@
    ("meta-llama/llama-3.3-70b-instruct" :> {"llama"}) @@
    ("x-ai/grok-4-fast" :> {}) @@
    ("deepseek/deepseek-chat-v3.1" :> {"deepseek"}) @@
    ("qwen/qwen-2.5-72b-instruct" :> {"qwen"}) @@
    ("Google/Gemini-2.0-Flash-Exp" :> {"gemini"}) @@
    ("local/gemini-llama-merge" :> {"gemini", "llama"})

max(a, b) == IF a >= b THEN a ELSE b

(* every family is given the floor of the llama family *)
max_tokens_for_OneFloor(model, max_tokens) ==
    IF FamilyWords[model] # {} THEN max(max_tokens, FamilyFloor)
    ELSE max_tokens

(* lines 85-97: max_tokens after the adjustment *)
max_tokens_for(model, max_tokens) ==
    IF "gemini" \in FamilyWords[model] THEN max(max_tokens, GeminiFloor)
    ELSE IF "llama" \in FamilyWords[model] THEN max(max_tokens, FamilyFloor)
    ELSE IF "deepseek" \in FamilyWords[model] THEN max(max_tokens, FamilyFloor)
    ELSE IF "qwen" \in FamilyWords[model] THEN max(max_tokens, FamilyFloor)
    ELSE max_tokens

(* lines 104-118 *)
PayloadOf(req) ==
    [model |-> req.model,
     max_tokens |-> max_tokens_for(req.model, req.max_tokens),
     extra_body |-> IF req.enable_web_search THEN Some("web_search") ELSE None]

(* the budgets a caller asks for: 10 (test_connection), and thousands *)
Budgets == {10} \cup {k * 1000 : k \in 1..MaxBudget}

Requests ==
    [model : ModelIds, max_tokens : Budgets, enable_web_search : BOOLEAN]

InitPayload ==
    /\ ClientInit
    /\ WsIdle
    /\ EtaIdle
    /\ SaveIdle
    /\ RunInit
    /\ ExtractIdle
    /\ CliIdle
    /\ request \in Requests
    /\ payload = None

(* lines 84-118: query_model builds the payload of its backend call *)
BuildPayload ==
    /\ payload = None
    /\ payload' = Some(PayloadOf(request))
    /\ UNCHANGED <<request, notpayload>>

NextPayload == BuildPayload

SpecPayload == InitPayload /\ [][NextPayload]_vars

----------------------------------------------------------------------------
(* run_forecast_task (web/backend/api.py): the background task of one job. *)
(* EnsembleManager.run_ensemble_forecast is modelled by what it returns:   *)
(* one call result per (model, iteration) and the counts of the summary.   *)

RunModels == <<"google/gemini-2.0-flash-exp", "openai/gpt-oss-20b">>
RunTotal == Len(RunModels) * Iterations

(* the k-th task of the run *)
RunTask(k) == <<RunModels[((k - 1) \div Iterations) + 1], ((k - 1) % Iterations) + 1>>

(* the call result of the k-th task when its backend call is answered by
   resp *)
RunResponse(k, resp) ==
    WithIteration(
        QueryResult(FALSE, ArgsOf(RunTask(k)[1], "p1", FALSE), 0, 0, resp, FALSE),
        RunTask(k)[2])

Successes(responses) ==
    Cardinality({k \in 1..Len(responses) : responses[k].status = "success"})

(* forecast_data *)
ForecastData(answers) ==
    LET responses == [k \in 1..RunTotal |-> RunResponse(k, answers[k])]
    IN [responses |-> responses,
        summary |-> [successful_queries |-> Successes(responses)],
        metadata |-> [total_queries |-> RunTotal]]

(* the answers of the backend in a run: a forecast, a refusal, an error
   payload, and a completion without choices (no text, so no probability) *)
RunAnswers == BatchResponses \cup {Resp("no_choices", None, None, None)}

----------------------------------------------------------------------------
(* ForecastAggregator.aggregate_results: mean, median, std, min and max     *)
(* over the results that carry a probability, and the same per model.      *)
(* A mean is the fraction <<sum, count>>; std is given by its square, the  *)
(* sample variance, as the fraction <<count * sum of squares - sum^2,      *)
(* count * (count - 1)>>.                                                  *)

RECURSIVE SumSeq(_)
SumSeq(s) == IF s = <<>> THEN 0 ELSE Head(s) + SumSeq(Tail(s))

(* the probabilities that are present, in the order of the results *)
PresentProbabilities(results) ==
    LET all == [i \in 1..Len(results) |-> results[i].probability]
    IN SelectSeq(all, LAMBDA p : p # NoProb)

(* the k-th smallest of the values xs *)
Ranked(xs, k) ==
    CHOOSE v \in {xs[i] : i \in 1..Len(xs)} :
        /\ Cardinality({i \in 1..Len(xs) : xs[i] < v}) < k
        /\ k <= Cardinality({i \in 1..Len(xs) : xs[i] <= v})

Mean(xs) == IF xs = <<>> THEN None ELSE Some(<<SumSeq(xs), Len(xs)>>)

Median(xs) ==
    IF xs = <<>> THEN None
    ELSE IF Len(xs) % 2 = 1 THEN Some(<<Ranked(xs, (Len(xs) + 1) \div 2), 1>>)
    ELSE Some(<<Ranked(xs, Len(xs) \div 2) + Ranked(xs, Len(xs) \div 2 + 1), 2>>)

(* a single data point has a standard deviation of zero *)
Std_ZeroForSinglePoint(xs) ==
    IF xs = <<>> THEN None
    ELSE Some(<<Len(xs) * SumSeq([i \in 1..Len(xs) |-> xs[i] * xs[i]])
                  - SumSeq(xs) * SumSeq(xs),
                IF Len(xs) = 1 THEN 1 ELSE Len(xs) * (Len(xs) - 1)>>)

Std(xs) ==
    IF Len(xs) < 2 THEN None
    ELSE Some(<<Len(xs) * SumSeq([i \in 1..Len(xs) |-> xs[i] * xs[i]])
                  - SumSeq(xs) * SumSeq(xs),
                Len(xs) * (Len(xs) - 1)>>)

Min(xs) ==
    IF xs = <<>> THEN None ELSE Some(Ranked(xs, 1))

Max(xs) ==
    IF xs = <<>> THEN None ELSE Some(Ranked(xs, Len(xs)))

ResultsOf(results, m) == SelectSeq(results, LAMBDA r : r.model = m)

ModelStats(results) ==
    LET xs == PresentProbabilities(results)
    IN [count |-> Len(results),
        success_count |-> Successes(results),
        mean |-> Mean(xs),
        std |-> Std(xs)]

aggregate_results(results) ==
    LET xs == PresentProbabilities(results)
        names == {results[i].model : i \in 1..Len(results)}
    IN [mean |-> Mean(xs), median |-> Median(xs), std |-> Std(xs),
        min |-> Min(xs), max |-> Max(xs),
        model_stats |-> [m \in names |-> ModelStats(ResultsOf(results, m))]]

----------------------------------------------------------------------------
(* The job of the web backend: its rows in the database, the endpoints     *)
(* that create and delete it, and its background task run_forecast_task.   *)

JobId == "j1"

DatabaseError == "database is locked"
NoSuccess == "No successful model responses"
NotNullError == "NOT NULL constraint failed: forecast_results.ensemble_probability"

(* manager.py, lines 81-94: the row create_job adds *)
PendingJob == [status |-> "pending", progress |-> 0, message |-> "Job created"]

(* update_job_status(job_id, "running", progress, message) *)
Running(progress, message) ==
    [status |-> "running", progress |-> progress, message |-> message]

(* lines 285-287: except Exception as e *)
Failed(e) ==
    [status |-> "failed", progress |-> 0, message |-> <<"Error: ", e>>]

(* lines 279-283 *)
CompletedJob ==
    [status |-> "completed", progress |-> 100,
     message |-> "Forecast completed successfully"]

(* what can go wrong in one call of update_job_status: the write of the
   row raises, the read of the row for the WebSocket message raises, or
   the send to the WebSocket client raises *)
UpdateFaults == {"none", "write", "read", "send"}

(* api.py, lines 86-134, with manager.py, lines 109-138 and 100-107: the row
   is written when it exists (the session scope commits, or rolls back and
   re-raises), then read again, and the message is sent to the WebSocket
   client of the job; only an exception of the send is caught *)
update_job_status(row, upd, fault) ==
    LET written == IF row = None \/ fault = "write" THEN row ELSE Some(upd)
    IN [job |-> written,
        raised |-> fault \in {"write", "read"},
        notice |-> CASE fault = "write" -> "write_error"
                     [] fault = "read" -> "read_error"
                     [] written = None -> "no_job"
                     [] fault = "send" -> "send_error"
                     [] OTHER -> "sent"]

(* a step of the try block that ends with a call of update_job_status: the
   task goes on at position next, or to the except clause when the call
   raised *)
Notify(upd, fault, next) ==
    LET u == update_job_status(job, upd, fault)
    IN /\ job' = u.job
       /\ notice' = u.notice
       /\ runpc' = IF u.raised THEN "except" ELSE next
       /\ exc' = IF u.raised THEN Some(DatabaseError) ELSE exc

(* api.py, lines 332-366 and 368-401: the endpoints create the job and
   schedule its background task *)
CreateJob ==
    /\ runpc = "nojob"
    /\ job = None
    /\ ~deleted
    /\ job' = Some(PendingJob)
    /\ runpc' = "idle"
    /\ notice' = "none"
    /\ UNCHANGED <<forecast, saved, reported, statistics, exc,
                   model_responses, forecast_result, deleted,
                   eta_trackers, notrun>>

(* api.py, lines 455-461, with manager.py, lines 212-221: the job is
   deleted with its result and its model responses (cascade of the
   relationships); the background task of the job is left alone *)
DeleteJob ==
    /\ job # None
    /\ job' = None
    /\ forecast_result' = None
    /\ model_responses' = <<>>
    /\ deleted' = TRUE
    /\ notice' = "none"
    /\ UNCHANGED <<runpc, forecast, saved, reported, statistics, exc,
                   eta_trackers, notrun>>

(* lines 173-178: the task starts *)
StartRun(fault) ==
    /\ runpc = "idle"
    /\ Notify(Running(5, "Initializing ensemble manager..."), fault, "init")
    /\ UNCHANGED <<forecast, saved, reported, statistics, model_responses,
                   forecast_result, deleted,
                   eta_trackers, notrun>>

(* lines 180-198: tracker, ensemble manager, aggregator and exporter are
   made *)
BeginQueries(fault) ==
    /\ runpc = "init"
    /\ Notify(Running(10, "Starting forecast queries..."), fault, "querying")
    /\ eta_trackers' = eta_trackers \cup {JobId}
    /\ UNCHANGED <<forecast, saved, reported, statistics, model_responses,
                   forecast_result, deleted, notrun>>

(* lines 200-202: progress_callback, called by run_ensemble_forecast after
   each completed call; the report is a notification the run does not
   depend on, so what the callback raises does not end the run *)
Progress(fault) ==
    /\ runpc = "querying"
    /\ reported < RunTotal
    /\ reported' = reported + 1
    /\ LET u == update_job_status(
                   job, Running(((reported + 1) * 100) \div RunTotal,
                                "Completed query"), fault)
       IN job' = u.job /\ notice' = u.notice
    /\ UNCHANGED <<runpc, forecast, saved, statistics, exc, model_responses,
                   forecast_result, deleted,
                   eta_trackers, notrun>>

(* lines 205-220: run_ensemble_forecast returns and the successes are
   counted *)
RunEnsemble(answers, fault) ==
    /\ runpc = "querying"
    /\ reported = RunTotal
    /\ forecast' = Some(ForecastData(answers))
    /\ IF ForecastData(answers).summary.successful_queries = 0
       THEN /\ runpc' = "except"
            /\ exc' = Some(NoSuccess)
            /\ notice' = "none"
            /\ UNCHANGED job
       ELSE Notify(Running(85, "Processing results..."), fault, "saving")
    /\ UNCHANGED <<saved, reported, statistics, model_responses,
                   forecast_result, deleted,
                   eta_trackers, notrun>>

(* a row of model_responses: manager.py, lines 303-316, called with
   success=True at api.py, line 235 *)
ResponseRow(r) ==
    [job_id |-> JobId, model_name |-> r.model, iteration_number |-> r.iteration,
     probability |-> r.probability, success |-> TRUE]

(* lines 222-237: db.save_model_response for the next response; the session
   scope of the database re-raises what the write raises; the row is
   added whether or not the job of its job_id exists *)
SaveResponse(dbfault) ==
    /\ runpc = "saving"
    /\ saved < Len(forecast[1].responses)
    /\ IF dbfault
       THEN /\ runpc' = "except"
            /\ exc' = Some(DatabaseError)
            /\ UNCHANGED <<saved, model_responses>>
       ELSE /\ saved' = saved + 1
            /\ model_responses' =
                 Append(model_responses,
                        ResponseRow(forecast[1].responses[saved + 1]))
            /\ UNCHANGED <<runpc, exc>>
    /\ notice' = "none"
    /\ UNCHANGED <<job, forecast, reported, statistics, forecast_result,
                   deleted,
                   eta_trackers, notrun>>

(* lines 239-243: the results are aggregated *)
Aggregate(fault) ==
    /\ runpc = "saving"
    /\ saved = Len(forecast[1].responses)
    /\ statistics' = Some(aggregate_results(forecast[1].responses))
    /\ Notify(Running(95, "Saving results..."), fault, "result")
    /\ UNCHANGED <<forecast, saved, reported, model_responses,
                   forecast_result, deleted,
                   eta_trackers, notrun>>

(* the row of forecast_results: manager.py, lines 262-278 *)
ResultRow(data, stats) ==
    [job_id |-> JobId,
     ensemble_probability |-> stats.mean,
     total_queries |-> data.metadata.total_queries,
     successful_queries |-> data.summary.successful_queries,
     failed_queries |->
         data.metadata.total_queries - data.summary.successful_queries,
     mean_probability |-> stats.mean,
     median_probability |-> stats.median,
     std_probability |-> stats.std,
     min_probability |-> stats.min,
     max_probability |-> stats.max]

(* models.py, lines 86-87: ensemble_probability is NOT NULL, the
   statistics columns are nullable *)
SaveResultError(row, dbfault) ==
    IF dbfault THEN Some(DatabaseError)
    ELSE IF row.ensemble_probability = None THEN Some(NotNullError)
    ELSE None

SaveResult_NotStored(dbfault) ==
    /\ runpc = "result"
    /\ runpc' = "completing"
    /\ notice' = "none"
    /\ UNCHANGED <<job, forecast, saved, reported, statistics, exc,
                   model_responses, forecast_result, deleted,
                   eta_trackers, notrun>>

(* lines 245-261: db.save_result *)
SaveResult(dbfault) ==
    /\ runpc = "result"
    /\ LET row == ResultRow(forecast[1], statistics[1])
           e == SaveResultError(row, dbfault)
       IN IF e # None
          THEN /\ runpc' = "except"
               /\ exc' = e
               /\ UNCHANGED forecast_result
          ELSE /\ runpc' = "completing"
               /\ forecast_result' = Some(row)
               /\ UNCHANGED exc
    /\ notice' = "none"
    /\ UNCHANGED <<job, forecast, saved, reported, statistics,
                   model_responses, deleted,
                   eta_trackers, notrun>>

(* lines 263-283: the job completes *)
Complete(fault) ==
    /\ runpc = "completing"
    /\ Notify(CompletedJob, fault, "done")
    /\ eta_trackers' = IF runpc' = "done" THEN eta_trackers \ {JobId}
                       ELSE eta_trackers
    /\ UNCHANGED <<forecast, saved, reported, statistics, model_responses,
                   forecast_result, deleted, notrun>>

Except_TrackerKept(fault) ==
    /\ runpc = "except"
    /\ runpc' = "done"
    /\ LET u == update_job_status(job, Failed(exc[1]), fault)
       IN job' = u.job /\ notice' = u.notice
    /\ UNCHANGED <<forecast, saved, reported, statistics, exc,
                   model_responses, forecast_result, deleted,
                   eta_trackers, notrun>>

(* lines 285-291: the except clause reports the job as failed; what its own
   call of update_job_status raises ends the task *)
Except(fault) ==
    /\ runpc = "except"
    /\ runpc' = "done"
    /\ LET u == update_job_status(job, Failed(exc[1]), fault)
       IN job' = u.job /\ notice' = u.notice
    /\ eta_trackers' = eta_trackers \ {JobId}
    /\ UNCHANGED <<forecast, saved, reported, statistics, exc,
                   model_responses, forecast_result, deleted, notrun>>

NextRun ==
    \/ CreateJob
    \/ DeleteJob
    \/ \E fault \in UpdateFaults : StartRun(fault)
    \/ \E fault \in UpdateFaults : BeginQueries(fault)
    \/ \E fault \in UpdateFaults : Progress(fault)
    \/ \E answers \in [1..RunTotal -> RunAnswers], fault \in UpdateFaults :
          RunEnsemble(answers, fault)
    \/ \E dbfault \in BOOLEAN : SaveResponse(dbfault)
    \/ \E fault \in UpdateFaults : Aggregate(fault)
    \/ \E dbfault \in BOOLEAN : SaveResult(dbfault)
    \/ \E fault \in UpdateFaults : Complete(fault)
    \/ \E fault \in UpdateFaults : Except(fault)

SpecRun == Init /\ [][NextRun]_vars

----------------------------------------------------------------------------
(* Claims *)

InFlight == {t \in TaskIds : pc[t] = "inflight"}

(* C1: at no point of a run do more than concurrency_limit query tasks have
   an unresolved backend call in flight, over all models of the run. *)
C1_GlobalConcurrencyBound == Cardinality(InFlight) <= ConcurrentLimit

(* C2: a call whose backend call fails with a transient network error or a
   timeout is retried: it does not end before MaxTries backend calls have
   been made. *)
C2_TransientFailureRetried ==
    \A t \in TaskIds :
        (/\ pc[t] = "done"
         /\ got[t] # None
         /\ got[t][1].resp.kind \in {"curl_failed", "timeout_error"})
        => obs[t].calls = MaxTries

(* the backend call of t ends in this step with a response of the kinds K *)
Answered(t, K) ==
    /\ pc[t] = "inflight"
    /\ got'[t] # None
    /\ got'[t][1].resp.kind \in K

(* C3: when the backend response carries an error payload, query_model makes
   no further attempt: it returns after that one backend call with
   status=error, the message of the payload ("Unknown error" when the payload
   has none), probability absent, and the cache is not written. *)
C3_ErrorPayloadNotRetried ==
    [][\A t \in TaskIds :
          Answered(t, {"error_payload"}) =>
             /\ pc'[t] = "done"
             /\ obs'[t].calls = 1
             /\ result'[t][1].status = "error"
             /\ result'[t][1].error =
                   (IF got'[t][1].resp.msg = None THEN "Unknown error"
                    ELSE got'[t][1].resp.msg[1])
             /\ result'[t][1].probability = NoProb
             /\ obs'[t].sets = 0
             /\ cache' = cache]_vars

C3_Witness ==
    \E t \in TaskIds :
        /\ use_cache
        /\ pc[t] = "done"
        /\ got[t] # None
        /\ got[t][1].resp = Resp("error_payload", Some("Rate limit exceeded"), None, None)
        /\ result[t][1].error = "Rate limit exceeded"

(* C4: query_model never raises to its caller. *)
C4_NeverRaises == \A t \in TaskIds : pc[t] # "raised"

(* C5: a batch ends only when every task it scheduled has finished, and it
   ends with one result for every task. *)
C5_BatchCollectsAll ==
    \A m \in Models :
        batchpc[m] \in {"returned", "raised"} =>
            /\ batchpc[m] = "returned"
            /\ \A t \in TasksOf(m) : pc[t] = "done"
            /\ Len(batchres[m]) = Iterations

(* C6: a call whose backend has not answered within the configured timeout
   has ended: no call is still waiting for its backend once more than Timeout
   has passed since the call was issued. *)
C6_TimeoutEndsCall ==
    \A t \in TaskIds : pc[t] = "inflight" => now - start_time[t] <= Timeout

(* call t makes an attempt (lines 76-120) in this step *)
AttemptStep(t) ==
    \/ t = Direct /\ queries' # queries
    \/ pc[t] = "queued" /\ pc'[t] # "queued"
    \/ pc[t] = "backoff" /\ tries'[t] # tries[t]

(* C7: when caching is enabled, refresh is not forced and the lookup finds an
   unexpired entry for (model, prompt), query_model returns that entry with
   response_source = cache (a batch task adds its iteration number) and makes
   no backend call, no extraction and no cache write. *)
C7_CacheHitSkipsBackend ==
    [][\A t \in TaskIds :
          (/\ AttemptStep(t)
           /\ use_cache
           /\ ~args'[t].force_refresh
           /\ obs'[t].fault = "none"
           /\ cache[CacheKey(args'[t].model, args'[t].prompt)] # None
           /\ now < cache[CacheKey(args'[t].model, args'[t].prompt)][1].expires_at)
          => LET e == cache[CacheKey(args'[t].model, args'[t].prompt)][1]
                 r == [e.value EXCEPT !.response_source = "cache"]
             IN /\ pc'[t] = "done"
                /\ result'[t] = Some(IF t = Direct THEN r
                                     ELSE [iteration |-> t[2]] @@ r)
                /\ obs'[t].calls = 0
                /\ obs'[t].extracts = 0
                /\ obs'[t].sets = 0
                /\ cache' = cache]_vars

C7_Witness ==
    \E t \in TaskIds :
        /\ pc[t] = "done"
        /\ obs[t].hit # None
        /\ result[t][1].response_source = "cache"
        /\ obs[t].calls = 0

(* C8: every cache entry holds a result with status=success. *)
C8_CacheHoldsOnlySuccess ==
    \A k \in CacheKeys : cache[k] # None => cache[k][1].value.status = "success"

C8_Witness ==
    /\ use_cache
    /\ \E k \in CacheKeys : cache[k] # None
    /\ \E t \in TaskIds :
          /\ result[t] # None
          /\ result[t][1].status = "rejected"
          /\ cache[CacheKey(args[t].model, args[t].prompt)] = None

(* C9: the probability of every returned result, from the backend or from
   the cache, is absent or within [0,100]; a value extracted from the content
   that is outside [0,100] is replaced by absent. *)
C9_ProbabilityInRange ==
    \A t \in TaskIds :
        result[t] # None =>
            /\ \/ result[t][1].probability = NoProb
               \/ (0 <= result[t][1].probability
                   /\ result[t][1].probability <= Pct(100))
            /\ (/\ got[t] # None
                /\ got[t][1].resp.kind = "completion"
                /\ result[t][1].content # None)
               => LET x == _extract_probability(got[t][1].resp.content[1])
                  IN result[t][1].probability =
                        IF 0 <= x /\ x <= Pct(100) THEN x ELSE NoProb

C9_Witness ==
    \E t \in TaskIds :
        /\ result[t] # None
        /\ got[t] # None
        /\ got[t][1].resp.content = Some(OverText)
        /\ _extract_probability(OverText) = Pct(150)
        /\ result[t][1].status = "success"
        /\ result[t][1].probability = NoProb

(* the result of t was made from a backend response without error payload *)
Completed(t) ==
    /\ pc[t] = "done"
    /\ got[t] # None
    /\ got[t][1].resp.kind \in {"completion", "no_choices"}

(* C10, as claimed: a response whose content contains a refusal phrase
   (compared ignoring case) gives status=rejected, whether or not a
   probability was extracted; any other response without error payload gives
   status=success. *)
C10_RefusalDecidesStatus ==
    \A t \in TaskIds :
        Completed(t) =>
            result[t][1].status =
                IF is_rejected(ContentOf(got[t][1].resp)) THEN "rejected"
                ELSE "success"

(* C10, amended: a response whose content contains a refusal phrase gives
   status=rejected, whether or not a probability was extracted; any other
   response without error payload gives status=success, unless the write of
   that result to the cache raises: then the result has status=error with
   content and probability absent. *)
C10_RefusalDecidesStatusUnlessWriteFails ==
    \A t \in TaskIds :
        Completed(t) =>
            LET r == result[t][1]
                content == ContentOf(got[t][1].resp)
            IN IF is_rejected(content)
               THEN /\ r.status = "rejected"
                    /\ r.content = Some(content)
               ELSE IF use_cache /\ got[t][1].wfault
               THEN /\ r.status = "error"
                    /\ r.content = None
                    /\ r.probability = NoProb
               ELSE /\ r.status = "success"
                    /\ r.content = Some(content)

C10_Witness ==
    \E t \in TaskIds :
        /\ Completed(t)
        /\ got[t][1].resp.content = Some(RefusalWithForecast)
        /\ result[t][1].status = "rejected"
        /\ result[t][1].probability = Pct(42)

----------------------------------------------------------------------------
(* Claims about _extract_probability *)

(* the marker values that are probabilities *)
Probabilities == {p \in MarkerValues : InRange(p)}

(* c holds the value p in one of the four formats of a label of labels *)
InMarkerFormat(c, labels, p) ==
    \E h \in Heads, f \in Formats, l \in labels :
        LET n == Len(h) + Len(Marker(f, l, p))
        IN /\ Len(c) >= n
           /\ SubSeq(c, 1, n) = h \o Marker(f, l, p)
           /\ SubSeq(c, n + 1, Len(c)) \in Tails

(* c mentions a percentage other than p *)
OtherPercentage(c, p) ==
    \E j \in 1..Len(c) :
        IsNum(c[j]) /\ c[j].v # p /\ IsSym(Tk(c, Ws(c, j + 1)), "%")

(* C12: for a content that holds both a primary marker (HAUPTPROGNOSE: p,
   p a probability) and a different generic percentage, the call returns
   the marker's value p; and whenever the primary patterns yield a value,
   that value is the one returned, so that a later strategy decides only
   when the primary ones yield none. *)
C12_CascadeOrder ==
    outcome # None =>
        /\ \A p \in Probabilities :
              InMarkerFormat(text, PrimaryLabels, p) /\ OtherPercentage(text, p)
                  => outcome[1].value = p
        /\ IsStr(text) /\ hauptprognose_patterns(text) # NoProb
              => outcome[1].value = hauptprognose_patterns(text)

C12_Witness ==
    /\ outcome # None
    /\ InMarkerFormat(text, PrimaryLabels, Pct(42) + 100)
    /\ NumPctLast(text) = Pct(30)
    /\ outcome[1].value = Pct(42) + 100

(* C13: every value a call of _extract_probability returns lies in
   [0,100]: a match that is out of range is discarded, whichever strategy
   found it (the keyword-line range midpoint and the generic percentage
   patterns included). *)
C13_ExtractedInRange ==
    outcome # None /\ outcome[1].value # NoProb => InRange(outcome[1].value)

(* C14: for every probability p written in one of the supported formats of
   a primary or legacy label (LABEL p%, **LABEL p%**, LABEL **p%**,
   LABEL p), the call returns exactly p, whatever precedes and follows
   the marker in the content. *)
C14_MarkerValueRecovered ==
    outcome # None =>
        \A p \in Probabilities :
            InMarkerFormat(text, PrimaryLabels \cup LegacyLabels, p)
                => outcome[1] = [raised |-> FALSE, value |-> p]

C14_Witness ==
    /\ outcome # None
    /\ InMarkerFormat(text, LegacyLabels, Pct(42) + 100)
    /\ Len(text) = 5 /\ IsSym(text[2], "**")
    /\ outcome[1].value = Pct(42) + 100

(* C15: a call of _extract_probability never raises: for the empty content
   and for a content in which no strategy finds a number it returns absent,
   and an error raised while matching (the content is not a str) is turned
   into absent. *)
C15_ExtractNeverRaises ==
    outcome # None =>
        /\ ~outcome[1].raised
        /\ (text = <<>> \/ ~IsStr(text) \/ Numbers(text) = <<>>)
              => outcome[1].value = NoProb

C15_Witness ==
    /\ text = NotAString
    /\ outcome = Some([raised |-> FALSE, value |-> NoProb])

----------------------------------------------------------------------------
(* Claims about run_forecast_task *)

(* C11: a run is reported as failed only when none of its call results has
   status=success; a run with at least one successful call completes and
   delivers its results. *)
C11_RunFailsOnlyWithoutSuccess ==
    runpc = "done" /\ forecast # None =>
        IF forecast[1].summary.successful_queries = 0
        THEN job # None => job[1].status = "failed"
        ELSE /\ job # None => job[1].status = "completed"
             /\ ~deleted => forecast_result # None

----------------------------------------------------------------------------
(* Further claims about query_model *)

(* the results query_model has returned *)
Returned == {t \in TaskIds : pc[t] = "done" /\ result[t] # None}

(* C16: a call result with status=rejected carries no probability (so that
   it cannot enter the numeric aggregation of the run). *)
C16_RejectedCarriesNoProbability ==
    \A t \in Returned :
        result[t][1].status = "rejected" => result[t][1].probability = NoProb

(* C17: cache round trip.  When query_model writes its result r for
   (model, prompt), a get of (model, prompt) returns exactly r at every
   time before the entry expires and absent from then on, the entry being
   still stored; a call that finds the unexpired entry returns r's fields
   (with response_source = cache), and a call that finds the entry
   expired goes to the backend. *)
C17_CacheRoundTrip ==
    [][LET a == args'[Direct]
           k == CacheKey(a.model, a.prompt)
       IN /\ cache' # cache =>
                /\ cache'[k] # None
                /\ \A t \in now..(MaxClock + CacheTTL) :
                      CacheGet(cache', t, a.model, a.prompt) =
                          IF t < now + CacheTTL THEN Some(result'[Direct][1])
                          ELSE None
          /\ (/\ AttemptStep(Direct) /\ Lookup(a) /\ obs'[Direct].fault = "none"
              /\ cache[k] # None)
             => IF now < cache[k][1].expires_at
                THEN result'[Direct] = Some(HitResult(cache[k][1].value))
                ELSE /\ pc'[Direct] = "inflight"
                     /\ result'[Direct] = None
                     /\ cache'[k] = cache[k]]_vars

C17_Witness ==
    /\ pc[Direct] = "inflight"
    /\ Lookup(args[Direct])
    /\ LET k == CacheKey(args[Direct].model, args[Direct].prompt)
       IN cache[k] # None /\ start_time[Direct] >= cache[k][1].expires_at

(* C18: the cache is keyed by the exact (model, prompt) pair: no step of a
   query_model call for (model, prompt) changes what a get of another
   pair (another prompt of the model, or another model) returns, at any
   time; a write for (m, p1) makes no get of (m, p2) or (m2, p1) hit. *)
C18_CacheKeyedByExactPair ==
    [][\A m \in Models, p \in Prompts :
          <<m, p>> # <<args'[Direct].model, args'[Direct].prompt>>
          => \A t \in 0..(MaxClock + CacheTTL) :
                CacheGet(cache', t, m, p) = CacheGet(cache, t, m, p)]_vars

C18_Witness ==
    /\ pc[Direct] = "inflight"
    /\ Lookup(args[Direct])
    /\ args[Direct].prompt = "p2"
    /\ CacheGet(cache, start_time[Direct], args[Direct].model, "p1") # None
    /\ obs[Direct].calls = 1

(* C19: a call of query_model that has ended has read the cache exactly
   once when caching is enabled and refresh is not forced (and not at all
   otherwise), has written it at most once, and has made at most one
   backend call per attempt, in at most 3 attempts. *)
C19_SideEffectsPerCall ==
    \A t \in TaskIds :
        pc[t] \in {"done", "raised"} =>
            /\ obs[t].reads = IF Lookup(args[t]) THEN 1 ELSE 0
            /\ obs[t].sets <= 1
            /\ obs[t].calls <= tries[t]
            /\ tries[t] <= MaxTries

(* C20: every result query_model returns, on every path, carries a status
   in {success, error, timeout, rejected}, a response_source in
   {api, cache} and the three usage token counts. *)
C20_ResultFieldsOnEveryPath ==
    \A t \in Returned :
        LET r == result[t][1]
        IN /\ {"status", "response_source", "usage"} \subseteq DOMAIN r
           /\ r.status \in {"success", "error", "timeout", "rejected"}
           /\ r.response_source \in {"api", "cache"}
           /\ DOMAIN r.usage =
                 {"prompt_tokens", "completion_tokens", "total_tokens"}

(* the backend response of t holds no refusal phrase and no probability can
   be extracted from its content *)
NothingExtracted(t) ==
    /\ Completed(t)
    /\ ~is_rejected(ContentOf(got[t][1].resp))
    /\ _extract_probability(ContentOf(got[t][1].resp)) = NoProb

(* C21, as claimed: a backend response from which no probability can be
   extracted and that holds no refusal phrase gives status=success with
   probability absent and the content present (possibly empty); every
   result with status=success has its content present. *)
C21_ExtractionFailureIsSuccess ==
    \A t \in Returned :
        /\ NothingExtracted(t) =>
              /\ result[t][1].status = "success"
              /\ result[t][1].probability = NoProb
              /\ result[t][1].content = Some(ContentOf(got[t][1].resp))
        /\ result[t][1].status = "success" => result[t][1].content # None

(* C21, amended: the same, unless caching is enabled and the write of the
   result to the cache raises: then the result has status=error with
   content and probability absent. *)
C21_ExtractionFailureIsSuccessUnlessWriteFails ==
    \A t \in Returned :
        /\ NothingExtracted(t) =>
              IF use_cache /\ got[t][1].wfault
              THEN /\ result[t][1].status = "error"
                   /\ result[t][1].probability = NoProb
                   /\ result[t][1].content = None
              ELSE /\ result[t][1].status = "success"
                   /\ result[t][1].probability = NoProb
                   /\ result[t][1].content = Some(ContentOf(got[t][1].resp))
        /\ result[t][1].status = "success" => result[t][1].content # None

C21_Witness ==
    \E t \in Returned :
        /\ NothingExtracted(t)
        /\ result[t][1].status = "success"
        /\ result[t][1].content = Some(<<>>)
        /\ result[t][1].probability = NoProb

(* C22: the token budget sent to the backend is never below the requested
   one: it is max(requested, 8000) when the model id contains gemini
   (ignoring case), else max(requested, 4000) when it contains llama,
   deepseek or qwen, else the requested budget; it is fixed when the
   payload is built, before the backend call, and applying it again (as a
   retried call does) changes nothing. *)
C22_TokenFloor ==
    payload # None =>
        LET words == FamilyWords[request.model]
            sent == payload[1].max_tokens
        IN /\ sent >= request.max_tokens
           /\ "gemini" \in words =>
                 sent = max(request.max_tokens, GeminiFloor)
           /\ "gemini" \notin words
                 /\ words \cap {"llama", "deepseek", "qwen"} # {}
                 => sent = max(request.max_tokens, FamilyFloor)
           /\ words = {} => sent = request.max_tokens
           /\ max_tokens_for(request.model, sent) = sent

C22_Witness ==
    /\ payload # None
    /\ request.model = "Google/Gemini-2.0-Flash-Exp"
    /\ request.max_tokens = 10
    /\ payload[1].max_tokens = GeminiFloor

----------------------------------------------------------------------------
(* main (main.py): the command line program.                               *)

Modes == {"interactive", "ukraine", "custom"}

(* lines 294-310: what parse_args returns; question: --question and
   --definition are given *)
Arguments ==
    [mode : Modes, dry_run : BOOLEAN, no_cache : BOOLEAN, dev_mode : BOOLEAN,
     cache_stats : BOOLEAN, question : BOOLEAN]

(* lines 44-59: ForesightAnalyzer(use_cache=True, dry_run=False) *)
ForesightAnalyzer(cache_on, dry) == [use_cache |-> cache_on, dry_run |-> dry]

(* lines 341-344 *)
UseCache(a) == IF a.dev_mode THEN TRUE ELSE ~a.no_cache

(* line 231 (interactive_mode) and lines 351, 363: the analyzer the mode
   makes *)
AnalyzerOf(a) ==
    IF a.mode = "interactive" THEN ForesightAnalyzer(TRUE, FALSE)
    ELSE ForesightAnalyzer(UseCache(a), a.dry_run)

InitCli ==
    /\ ClientInit
    /\ WsIdle
    /\ EtaIdle
    /\ SaveIdle
    /\ RunInit
    /\ ExtractIdle
    /\ PayloadIdle
    /\ argv \in Arguments
    /\ clipc = "start"
    /\ analyzer = None
    /\ api_calls = 0

(* lines 292-372: main up to the first forecast or the menu *)
Main ==
    /\ clipc = "start"
    /\ IF argv.cache_stats
       THEN clipc' = "exit" /\ analyzer' = analyzer
       ELSE IF argv.mode = "custom" /\ ~argv.question
       THEN clipc' = "exit" /\ analyzer' = analyzer
       ELSE /\ analyzer' = Some(AnalyzerOf(argv))
            /\ clipc' = IF argv.mode = "interactive" THEN "menu"
                        ELSE "forecasting"
    /\ UNCHANGED <<argv, api_calls, notcli>>

(* lines 233-288: the user chooses a forecast (1, 2) or the exit (3) *)
Choose(choice) ==
    /\ clipc = "menu"
    /\ clipc' = IF choice = 3 THEN "exit" ELSE "forecasting"
    /\ UNCHANGED <<argv, analyzer, api_calls, notcli>>

(* the run of the ensemble manager issues a backend call, unless the
   manager was made with dry_run=True (main.py, lines 51 and 56) *)
BackendCall ==
    /\ clipc = "forecasting"
    /\ ~analyzer[1].dry_run
    /\ api_calls < MaxCalls
    /\ api_calls' = api_calls + 1
    /\ UNCHANGED <<argv, clipc, analyzer, notcli>>

(* lines 61-97 and 99-159: the forecast ends *)
EndForecast ==
    /\ clipc = "forecasting"
    /\ clipc' = IF argv.mode = "interactive" THEN "menu" ELSE "exit"
    /\ UNCHANGED <<argv, analyzer, api_calls, notcli>>

NextCli ==
    \/ Main
    \/ \E choice \in 1..3 : Choose(choice)
    \/ BackendCall
    \/ EndForecast

SpecCli == InitCli /\ [][NextCli]_vars

----------------------------------------------------------------------------
(* Claims about the job of the web backend *)

(* a call of update_job_status in the step just taken failed to deliver *)
NotificationFailed == notice \in {"write_error", "read_error", "send_error"}

(* C23: progress reporting is fire-and-forget: every completed call of the
   run has produced a progress event when the run returns, and a failure
   while a progress or status notification is delivered never fails or
   aborts the forecast run. *)
C23_NotificationFailureNeverFailsRun ==
    [][/\ runpc' = "saving" => reported' = RunTotal
       /\ NotificationFailed' /\ runpc # "except" => runpc' # "except"]_vars

(* the run has aggregated results of which none carries a probability *)
AggregatedWithoutData ==
    /\ statistics # None
    /\ PresentProbabilities(forecast[1].responses) = <<>>

(* C24: aggregate on an input in which every call result has its
   probability absent raises no exception and returns a statistics object
   whose fields are all absent, and consuming that object downstream (the
   save of the result) does not fail the run. *)
C24_AllAbsentAggregateDoesNotFailRun ==
    AggregatedWithoutData =>
        /\ \A f \in {"mean", "median", "std", "min", "max"} :
              statistics[1][f] = None
        /\ exc # Some(NotNullError)

(* the models of the run with exactly one probability among their results *)
SinglePointModels ==
    {m \in DOMAIN statistics[1].model_stats :
        Len(PresentProbabilities(ResultsOf(forecast[1].responses, m))) = 1}

(* C25: for a model with exactly one probability among its results the
   per-model std of the statistics object is absent (not zero), while that
   model's mean is its one probability and the mean, median, min and max of
   the ensemble are defined; the save of the result does not fail on the
   absent std. *)
C25_SinglePointStdAbsent ==
    statistics # None =>
        \A m \in SinglePointModels :
            LET xs == PresentProbabilities(ResultsOf(forecast[1].responses, m))
                stats == statistics[1]
            IN /\ stats.model_stats[m].std = None
               /\ stats.model_stats[m].mean = Some(<<xs[1], 1>>)
               /\ \A f \in {"mean", "median", "min", "max"} : stats[f] # None
               /\ exc # Some(NotNullError)
               /\ forecast_result # None =>
                     /\ forecast_result[1].ensemble_probability = stats.mean
                     /\ forecast_result[1].std_probability = stats.std

C25_Witness ==
    /\ statistics # None
    /\ SinglePointModels = {RunModels[1]}
    /\ statistics[1].std = None
    /\ forecast_result # None
    /\ forecast_result[1].ensemble_probability = Some(<<Pct(42), 1>>)
    /\ forecast_result[1].std_probability = None
    /\ job # None
    /\ job[1].status = "completed"

(* C29: query_model with force_refresh=True skips the cache lookup and
   issues a backend call also when an unexpired entry exists for (model,
   prompt); a success result of that call is written to the cache and
   replaces the entry that was there. *)
C29_ForceRefreshBypassesCache ==
    [][\A t \in TaskIds :
          LET k == CacheKey(args'[t].model, args'[t].prompt)
          IN /\ AttemptStep(t) /\ args'[t].force_refresh
                => /\ pc'[t] = "inflight"
                   /\ obs'[t].reads = 0
                   /\ obs'[t].calls = tries'[t]
                   /\ cache' = cache
             /\ (/\ pc[t] = "inflight"
                 /\ pc'[t] = "done"
                 /\ args[t].force_refresh
                 /\ use_cache
                 /\ result'[t][1].status = "success")
                => /\ cache'[k] =
                        Some([value |-> result'[t][1],
                              expires_at |-> now + CacheTTL])
                   /\ CacheGet(cache', now, args[t].model, args[t].prompt)
                        = result'[t]]_vars

(* a forced call is in flight while an unexpired entry of another content
   is stored for its (model, prompt) *)
C29_Witness ==
    /\ use_cache
    /\ pc[Direct] = "inflight"
    /\ args[Direct].force_refresh
    /\ obs[Direct].calls = 1
    /\ CacheGet(cache, now, args[Direct].model, args[Direct].prompt) # None

----------------------------------------------------------------------------
(* Further claims about batch_query *)

(* the time at which the call of a result ended *)
EndTime(r) == r.timestamp + r.response_time

(* C26: the result list of a batch does not depend on the order in which
   its calls complete: a batch of N iterations of one model returns exactly
   N call results, the i-th being the result of iteration i, numbered i
   (from 1) and carrying the id of the model, so that each (model,
   iteration) key appears exactly once. *)
C26_BatchResultsKeyedByIteration ==
    \A m \in Models :
        batchpc[m] = "returned" =>
            /\ Len(batchres[m]) = Iterations
            /\ \A i \in 1..Iterations :
                  /\ batchres[m][i] = result[<<m, i>>][1]
                  /\ batchres[m][i].iteration = i
                  /\ batchres[m][i].model = m

(* iteration 2 of a batch has completed before iteration 1 *)
C26_Witness ==
    \E m \in Models :
        /\ batchpc[m] = "returned"
        /\ EndTime(batchres[m][2]) < EndTime(batchres[m][1])
        /\ batchres[m][1].iteration = 1
        /\ batchres[m][2].iteration = 2

(* C28: delete_job deletes a job and all related data: in every state
   reached after delete_job has returned true for the job, no row of
   forecast_results and no row of model_responses with the job's id exists,
   also when the forecast task of the job was still running at the time of
   the deletion. *)
C28_DeleteRemovesAllRows ==
    deleted =>
        /\ forecast_result = None
        /\ \A i \in 1..Len(model_responses) :
              model_responses[i].job_id # JobId

(* the changes of status the lifecycle of a job allows *)
StatusChanges ==
    {<<"pending", "running">>, <<"running", "completed">>,
     <<"pending", "failed">>, <<"running", "failed">>}

(* C30: job lifecycle.  A job is created with status pending and progress
   0.0; its status only moves from pending to running to completed, or from
   pending or running to failed; completed is set only together with
   progress 1.0 and failed together with progress 0.0; once a job is
   completed or failed its status never changes again. *)
C30_JobLifecycle ==
    [][/\ job = None /\ job' # None
          => job'[1].status = "pending" /\ job'[1].progress = 0
       /\ job # None /\ job' # None /\ job'[1].status # job[1].status
          => <<job[1].status, job'[1].status>> \in StatusChanges
       /\ job' # None /\ job'[1].status = "completed"
          => job'[1].progress = 100
       /\ job' # None /\ job'[1].status = "failed"
          => job'[1].progress = 0]_vars

----------------------------------------------------------------------------
(* Claims about main *)

(* C27: when the program is started with --dry-run, no backend call is
   made, in every run mode (interactive, ukraine, custom). *)
C27_DryRunMakesNoBackendCall ==
    argv.dry_run => api_calls = 0
----------------------------------------------------------------------------
(* DatabaseManager.save_result on the table forecast_results.  The table is *)
(* the sequence of its rows in the order of insertion; the id of a row is   *)
(* its autoincrement primary key.                                           *)

SaveJobs == {"j1", "j2"}

SaveArgs ==
    [job_id : SaveJobs,
     ensemble_probability : {None, Some(Pct(42)), Some(Pct(50))},
     total_queries : {2},
     successful_queries : {1, 2},
     failed_queries : {0, 1}]

(* manager.py, line 242: session.query(ForecastResult)
   .filter_by(job_id=job_id).first(): the position of the first row of the
   job, 0 if there is none *)
first(rows, job_id) ==
    LET found == {i \in 1..Len(rows) : rows[i].job_id = job_id}
    IN IF found = {} THEN 0
       ELSE CHOOSE i \in found : \A j \in found : i <= j

(* lines 245-258: the fields of the existing row are assigned; its id stays *)
Overwritten(row, a) ==
    [id |-> row.id, job_id |-> row.job_id,
     ensemble_probability |-> a.ensemble_probability,
     total_queries |-> a.total_queries,
     successful_queries |-> a.successful_queries,
     failed_queries |-> a.failed_queries]

(* lines 262-278: ForecastResult(...); models.py, line 83: the next id *)
Created(rows, a) ==
    [id |-> Len(rows) + 1, job_id |-> a.job_id,
     ensemble_probability |-> a.ensemble_probability,
     total_queries |-> a.total_queries,
     successful_queries |-> a.successful_queries,
     failed_queries |-> a.failed_queries]

save_result_AlwaysInsert(rows, a) ==
    IF a.ensemble_probability = None
    THEN [rows |-> rows, existing |-> first(rows, a.job_id) # 0,
          raised |-> TRUE]
    ELSE [rows |-> Append(rows, Created(rows, a)),
          existing |-> first(rows, a.job_id) # 0, raised |-> FALSE]

(* lines 225-283: save_result; session.flush() at line 281 raises on a null
   ensemble_probability (models.py, line 87) and session_scope rolls back *)
save_result(rows, a) ==
    LET i == first(rows, a.job_id)
    IN IF a.ensemble_probability = None
       THEN [rows |-> rows, existing |-> i # 0, raised |-> TRUE]
       ELSE IF i # 0
       THEN [rows |-> [rows EXCEPT ![i] = Overwritten(rows[i], a)],
             existing |-> TRUE, raised |-> FALSE]
       ELSE [rows |-> Append(rows, Created(rows, a)),
             existing |-> FALSE, raised |-> FALSE]

(* one call of db.save_result *)
SaveResultCall(a) ==
    /\ save_call.n < MaxSaves
    /\ LET r == save_result(forecast_results, a)
       IN /\ forecast_results' = r.rows
          /\ save_call' = [n |-> save_call.n + 1, args |-> a,
                           existing |-> r.existing, raised |-> r.raised]
    /\ UNCHANGED notsave

NextSave == \E a \in SaveArgs : SaveResultCall(a)

SpecSave == Init /\ [][NextSave]_vars

(* the fields save_result stores *)
StoredFields(row) ==
    [job_id |-> row.job_id,
     ensemble_probability |-> row.ensemble_probability,
     total_queries |-> row.total_queries,
     successful_queries |-> row.successful_queries,
     failed_queries |-> row.failed_queries]

RowsOf(rows, job_id) == {i \in 1..Len(rows) : rows[i].job_id = job_id}

(* C31: after any sequence of save_result calls there is at most one
   ForecastResult per job_id; a call that does not raise leaves exactly the
   row of its job holding the new values in every stored field, adds a row
   only when the job had none, leaves the rows of other jobs alone, and
   calling it again with the same arguments changes nothing. *)
C31_SaveResultOverwrites ==
    [][LET a == save_call'.args
       IN /\ \A j \in SaveJobs :
                Cardinality(RowsOf(forecast_results', j)) <= 1
          /\ save_call'.raised => forecast_results' = forecast_results
          /\ ~save_call'.raised =>
                /\ \E i \in RowsOf(forecast_results', a.job_id) :
                       StoredFields(forecast_results'[i]) = a
                /\ Len(forecast_results') = Len(forecast_results)
                       + (IF save_call'.existing THEN 0 ELSE 1)
                /\ \A i \in 1..Len(forecast_results) :
                       forecast_results[i].job_id # a.job_id =>
                           forecast_results'[i] = forecast_results[i]
                /\ save_result(forecast_results', a).rows
                       = forecast_results']_vars

(* a second result of a job has been saved with other values *)
C31_Witness ==
    /\ save_call.existing
    /\ ~save_call.raised
    /\ save_call.n >= 2
    /\ Len(forecast_results) = 2
    /\ \E i \in 1..Len(forecast_results) :
           /\ forecast_results[i].job_id = save_call.args.job_id
           /\ forecast_results[i].ensemble_probability = Some(Pct(50))
           /\ forecast_results[i].successful_queries = 1
----------------------------------------------------------------------------
(* ModelETATracker and its calculators (eta_calculator.py)                  *)

ModelLists == {<<"m1">>, <<"m1", "m2">>}
IterationCounts == 0..2
CompletedCounts == 0..2
Deltas == 0..MaxDelta

Listed(models) == {models[i] : i \in 1..Len(models)}

(* lines 202-218: start_job *)
start_job(tr, models, iterations_per_model) ==
    [model_calculators |->
         [m \in EtaModels |->
             IF m \in Listed(models)
             THEN Some(start(ETACalculator, iterations_per_model))
             ELSE tr.model_calculators[m]],
     global_calculator |->
         start(tr.global_calculator, Len(models) * iterations_per_model)]

(* lines 220-232: update_model; the calculator of the model and the global
   one each read the clock *)
update_model(tr, model_name, queries_completed, dm, dg) ==
    [model_calculators |->
         [m \in EtaModels |->
             IF m = model_name /\ tr.model_calculators[m] # None
             THEN Some(update(tr.model_calculators[m][1],
                              queries_completed, dm))
             ELSE tr.model_calculators[m]],
     global_calculator |->
         update(tr.global_calculator, queries_completed, dg)]

get_model_status_NoPending(tr, model_name) ==
    IF tr.model_calculators[model_name] = None THEN "pending"
    ELSE LET calc == tr.model_calculators[model_name][1]
         IN IF calc.completed_queries >= calc.total_queries
            THEN "completed"
            ELSE "running"

(* lines 252-268: get_model_status *)
get_model_status(tr, model_name) ==
    IF tr.model_calculators[model_name] = None THEN "pending"
    ELSE LET calc == tr.model_calculators[model_name][1]
         IN IF calc.completed_queries = 0 THEN "pending"
            ELSE IF calc.completed_queries >= calc.total_queries
            THEN "completed"
            ELSE "running"

StartJob(models, iterations_per_model) ==
    /\ tracker' = start_job(tracker, models, iterations_per_model)
    /\ eta_op' = [op |-> "start_job", model |-> "", n |-> 0,
                  calls |-> eta_op.calls]
    /\ UNCHANGED noteta

UpdateModel(model_name, queries_completed, dm, dg) ==
    /\ eta_op.calls < MaxUpdates
    /\ tracker' = update_model(tracker, model_name, queries_completed,
                               dm, dg)
    /\ eta_op' = [op |-> "update_model", model |-> model_name,
                  n |-> queries_completed, calls |-> eta_op.calls + 1]
    /\ UNCHANGED noteta

NextEta ==
    \/ \E models \in ModelLists, i \in IterationCounts : StartJob(models, i)
    \/ \E m \in EtaModels, n \in CompletedCounts, dm, dg \in Deltas :
           UpdateModel(m, n, dm, dg)

SpecEta == Init /\ [][NextEta]_vars

(* the calculators of the tracker *)
Calculators ==
    {tracker.global_calculator}
        \cup {tracker.model_calculators[m][1] :
                 m \in {x \in EtaModels : tracker.model_calculators[x] # None}}

ProgressInRange(calc) ==
    /\ 0 <= get_progress(calc)[1]
    /\ get_progress(calc)[1] <= get_progress(calc)[2]

(* an update of a calculator that had a last update time brought its
   completed queries to the total *)
Reached(before, after) ==
    /\ before.last_update_time
    /\ after.completed_queries > 0
    /\ after.completed_queries >= after.total_queries

(* C32: get_progress of an ETA calculator is always within [0.0, 1.0], also
   when more queries are reported completed than the total; get_eta returns
   None after start, before the first update, and 0 once an update of a
   calculator that was started or updated before has brought
   completed_queries to at least total_queries. *)
C32_ProgressAndEta ==
    [][/\ \A calc \in Calculators : ProgressInRange(calc)
       /\ \A calc \in Calculators' : ProgressInRange(calc)
       /\ eta_op'.op = "start_job" =>
             /\ get_eta(tracker'.global_calculator) = None
             /\ \A m \in EtaModels :
                    tracker'.model_calculators[m] # tracker.model_calculators[m]
                    => get_eta(tracker'.model_calculators[m][1]) = None
       /\ eta_op'.op = "update_model" =>
             /\ Reached(tracker.global_calculator, tracker'.global_calculator)
                    => get_eta(tracker'.global_calculator) = Some(0)
             /\ \A m \in EtaModels :
                    (/\ tracker.model_calculators[m] # None
                     /\ m = eta_op'.model
                     /\ Reached(tracker.model_calculators[m][1],
                                tracker'.model_calculators[m][1]))
                    => get_eta(tracker'.model_calculators[m][1]) = Some(0)]_vars

(* more queries are completed than the total of a started calculator *)
C32_Witness ==
    \E calc \in Calculators :
        /\ calc.total_queries > 0
        /\ calc.completed_queries > calc.total_queries
        /\ calc.query_times # <<>>
        /\ get_progress(calc) = <<1, 1>>
        /\ get_eta(calc) = Some(0)

(* C32 as stated: get_eta is 0 once an update has made completed_queries
   reach total_queries *)
C32_EtaZeroOnceComplete ==
    \A calc \in Calculators :
        (eta_op.op = "update_model"
            /\ calc.completed_queries > 0
            /\ calc.completed_queries >= calc.total_queries)
        => get_eta(calc) = Some(0)
StatusRank(status) ==
    CASE status = "pending" -> 0
      [] status = "running" -> 1
      [] status = "completed" -> 2

(* C39: between two start_job calls the status get_model_status reports for
   a model only moves forward pending -> running -> completed as
   update_model is called; it is completed exactly when the completed
   queries of the model are at least 1 and at least its total; an update
   for a model unknown to the tracker changes only the global calculator. *)
C39_ModelStatusMovesForward ==
    [][eta_op'.op = "update_model" =>
          /\ \A m \in EtaModels :
                 /\ StatusRank(get_model_status(tracker', m))
                        >= StatusRank(get_model_status(tracker, m))
                 /\ get_model_status(tracker', m) = "completed" <=>
                        /\ tracker'.model_calculators[m] # None
                        /\ tracker'.model_calculators[m][1].completed_queries
                               >= 1
                        /\ tracker'.model_calculators[m][1].completed_queries
                               >= tracker'.model_calculators[m][1].total_queries
          /\ tracker.model_calculators[eta_op'.model] = None =>
                 /\ tracker'.model_calculators = tracker.model_calculators
                 /\ tracker'.global_calculator.completed_queries
                        = tracker.global_calculator.completed_queries
                              + eta_op'.n]_vars

(* a model has completed its two queries one by one, and an update for an
   unknown model has been counted by the global calculator *)
C39_Witness ==
    /\ eta_op.op = "update_model"
    /\ eta_op.model = "m2"
    /\ tracker.model_calculators["m2"] = None
    /\ tracker.model_calculators["m1"] # None
    /\ get_model_status(tracker, "m1") = "completed"
    /\ tracker.model_calculators["m1"][1].total_queries = 2
    /\ Len(tracker.model_calculators["m1"][1].query_times) = 2
    /\ tracker.global_calculator.completed_queries = 3
----------------------------------------------------------------------------
(* C33: whenever a job has status completed, a ForecastResult of the job has
   been saved before, and its counts satisfy total_queries =
   successful_queries + failed_queries with failed_queries >= 0. *)
C33_CompletedHasResult ==
    (job # None /\ job[1].status = "completed") =>
        /\ forecast_result # None
        /\ forecast_result[1].job_id = JobId
        /\ forecast_result[1].total_queries
               = forecast_result[1].successful_queries
                    + forecast_result[1].failed_queries
        /\ forecast_result[1].failed_queries >= 0

(* a job has completed although one of its queries failed *)
C33_Witness ==
    /\ job # None
    /\ job[1].status = "completed"
    /\ runpc = "done"
    /\ forecast_result # None
    /\ forecast_result[1].failed_queries >= 1
    /\ forecast_result[1].successful_queries >= 1
----------------------------------------------------------------------------
(* the forecast task of the job is executing *)
TaskExecuting == runpc \in {"init", "querying", "saving", "result",
                            "completing", "except"}

(* C36: eta_trackers holds an entry for a job only while the forecast task
   of the job is executing; after run_forecast_task has returned, whether
   the job completed or failed, the job id is not a key of eta_trackers. *)
C36_TrackerOnlyWhileRunning ==
    /\ JobId \in eta_trackers => TaskExecuting
    /\ runpc = "done" => JobId \notin eta_trackers

(* the task has returned through the except clause after its tracker had
   been registered *)
C36_Witness ==
    /\ runpc = "done"
    /\ exc # None
    /\ forecast # None
    /\ reported = RunTotal
    /\ JobId \notin eta_trackers
----------------------------------------------------------------------------
(* the response of the run a row of model_responses was made from *)
ResponseOf(row) ==
    CHOOSE r \in {forecast[1].responses[k] :
                     k \in 1..Len(forecast[1].responses)} :
        r.model = row.model_name /\ r.iteration = row.iteration_number

(* C37: each result of a run is persisted as one model-response record
   whose success flag is true only if the status of the result is success;
   results that ended in error, timeout or rejected are persisted with
   success false. *)
C37_SuccessFlagFollowsStatus ==
    \A i \in 1..Len(model_responses) :
        model_responses[i].success
            <=> ResponseOf(model_responses[i]).status = "success"
----------------------------------------------------------------------------
(* The WebSocket connections of one job (api.py, websocket_endpoint)       *)

(* lines 471-483: a client connects; the connection is accepted and stored
   under the job id, replacing what was stored; when reading the job or
   sending the current status raises, the finally clause runs at once *)
Connect(c, fault) ==
    /\ websockets[c] = "new"
    /\ IF fault
       THEN /\ websockets' = [websockets EXCEPT ![c] = "closed"]
            /\ active_connections' = None
       ELSE /\ websockets' = [websockets EXCEPT ![c] = "open"]
            /\ active_connections' = Some(c)
    /\ UNCHANGED <<received, notws>>

(* lines 485-496: receive_text raises WebSocketDisconnect; the finally
   clause deletes the entry of the job id *)
Disconnect(c) ==
    /\ websockets[c] = "open"
    /\ websockets' = [websockets EXCEPT ![c] = "closed"]
    /\ active_connections' = None
    /\ UNCHANGED <<received, notws>>

(* lines 126-134: update_job_status sends the update to the connection
   stored under the job id; a send to a closed connection raises and is
   logged *)
SendUpdate ==
    /\ active_connections # None
    /\ received[active_connections[1]] < MaxSends
    /\ received' =
          IF websockets[active_connections[1]] = "open"
          THEN [received EXCEPT ![active_connections[1]] = @ + 1]
          ELSE received
    /\ UNCHANGED <<active_connections, websockets, notws>>

NextWs ==
    \/ \E c \in Connections, fault \in BOOLEAN : Connect(c, fault)
    \/ \E c \in Connections : Disconnect(c)
    \/ SendUpdate

SpecWs == Init /\ [][NextWs]_vars

(* C35: a WebSocket connection registered for a job stays registered in
   active_connections until that same connection disconnects: the
   disconnect of an older connection of the job does not remove the
   registration of a newer one. *)
C35_RegisteredUntilOwnDisconnect ==
    [][\A c \in Connections, d \in Connections :
          (/\ c # d
           /\ active_connections = Some(c)
           /\ websockets'[c] = "open"
           /\ websockets[d] = "open"
           /\ websockets'[d] = "closed")
          => active_connections' = Some(c)]_vars
----------------------------------------------------------------------------
(* the backend call of t returns a response that query_model makes a
   successful result of, and the write of that result to the cache raises *)
WriteRaises(t) ==
    /\ Answered(t, {"completion", "no_choices"})
    /\ use_cache
    /\ got'[t][1].wfault
    /\ CompletionResult(args[t], start_time[t], now,
                        got'[t][1].resp).status = "success"

(* C38: if the cache write raises after the backend returned a successful
   response, query_model does not raise: it returns a result with
   status=error whose content and probability are absent, and the cache is
   left without the new entry. *)
C38_CacheWriteFailureIsError ==
    [][\A t \in TaskIds :
          WriteRaises(t) =>
              /\ pc'[t] = "done"
              /\ result'[t] # None
              /\ result'[t][1].status = "error"
              /\ result'[t][1].content = None
              /\ result'[t][1].probability = NoProb
              /\ cache' = cache]_vars

(* a call has returned status=error because the write to the cache raised
   after a forecast was extracted; nothing is stored for its key *)
C38_Witness ==
    \E t \in Returned :
        /\ use_cache
        /\ got[t][1].wfault
        /\ got[t][1].resp.kind = "completion"
        /\ result[t][1].status = "error"
        /\ result[t][1].error = CacheWriteFailure
        /\ result[t][1].content = None
        /\ cache[CacheKey(args[t].model, args[t].prompt)] = None
----------------------------------------------------------------------------
(* the backend calls the tasks of the batch of m have made *)
BackendCalls(m) ==
    LET calls == [i \in 1..Iterations |-> obs[<<m, i>>].calls]
    IN SumSeq(calls)

(* the batch of m has returned, with caching enabled, and each of its
   backend calls has returned a response that is not rejected and holds no
   error payload *)
AllAnswersSucceed(m) ==
    /\ batchpc[m] = "returned"
    /\ use_cache
    /\ \A t \in TasksOf(m) :
           got[t] # None =>
               /\ got[t][1].resp.kind = "completion"
               /\ ~is_rejected(ContentOf(got[t][1].resp))

(* no write to the cache has raised in the batch of m *)
NoWriteRaised(m) == \A t \in TasksOf(m) : got[t] # None => ~got[t][1].wfault

(* C34, as claimed: with caching enabled, no stored entry at the start and
   every backend call returning a non-rejected response without error
   payload, a batch of N iterations with concurrent_limit L issues exactly
   min(N, L) backend calls.  When every task of the batch has ended, the
   semaphore holds its initial value L again. *)
C34_BatchCallsOncePerSlot ==
    \A m \in QueryModels :
        AllAnswersSucceed(m) =>
            BackendCalls(m) = (IF Iterations <= sem[m] THEN Iterations
                               ELSE sem[m])

(* every iteration of the batch of m was admitted before an entry written
   by a call of the batch had expired *)
NoEntryExpired(m) ==
    \A t \in TasksOf(m), u \in TasksOf(m) :
        got[u] # None => began[t] < EndTime(result[u][1]) + CacheTTL

(* C34, amended: the same, provided no write to the cache raises during
   the batch and no entry written by the batch expires before the last
   iteration is admitted; the iterations that make no backend call are
   served from the cache with source=cache. *)
C34_BatchCallsOncePerSlotUnlessWriteFails ==
    \A m \in QueryModels :
        (AllAnswersSucceed(m) /\ NoWriteRaised(m) /\ NoEntryExpired(m)) =>
            /\ BackendCalls(m) = (IF Iterations <= sem[m] THEN Iterations
                                  ELSE sem[m])
            /\ \A t \in TasksOf(m) :
                   obs[t].calls = 0 =>
                       /\ result[t][1].response_source = "cache"
                       /\ result[t][1].status = "success"

(* a batch of two iterations with concurrent_limit 1 has returned after one
   backend call; the second iteration was served from the cache *)
C34_Witness ==
    \E m \in QueryModels :
        /\ AllAnswersSucceed(m)
        /\ NoWriteRaised(m)
        /\ NoEntryExpired(m)
        /\ sem[m] = 1
        /\ BackendCalls(m) = 1
        /\ obs[<<m, 1>>].calls = 1
        /\ result[<<m, 2>>][1].response_source = "cache"
====
